---- MODULE Spec2Model ----
(***************************************************************************)
(* Seoul safety data pipeline (SheSawLabs/server).                         *)
(*                                                                         *)
(* Part 1 - the two batch schedulers (scheduler/*.py) together with the    *)
(* batch controllers they drive (controllers/*_batch_controller.py).       *)
(* One scheduler process is modelled: start_scheduler, the initial and the *)
(* scheduled collection passes (collect_batch, one step per upstream       *)
(* request), the polling loop, stop_scheduler and the interrupt signal.    *)
(***************************************************************************)
EXTENDS Integers, Sequences, FiniteSets, TLC

VARIABLES
    \* ---- scheduler process ------------------------------------------------
    sched,            \* which scheduler class the process runs
    prov,             \* the upstream provider's dataset (environment)
    hasUnique,        \* streetlight_installations has UNIQUE(management_number)
    today,            \* datetime.now().date(), as a day number
    daily_used,       \* self.daily_used
    last_reset_date,  \* self.last_reset_date
    is_running,       \* self.is_running
    jobs,             \* number of jobs registered with the schedule library
    phase,            \* position inside start_scheduler
    step,             \* position inside collect_batch
    upstream,         \* "up"/"down": whether upstream answers during this pass
    loc,              \* locals of collect_batch / run_batch_update
    stored,           \* destination table: provider page -> rows persisted
    passesToday,      \* passes begun on the current date (bounded)
    downs,            \* passes run against a failing upstream (bounded)
    apiCallsToday,    \* observation: upstream requests sent by passes today
    obs,              \* observation of the current / last pass
    \* ---- controller save operations ----------------------------------------
    dbCtrl,           \* the controller whose save operation is exercised
    table,            \* destination table: rows in insertion order
    input,            \* the processed records handed to the save operation
    dbpc,             \* position inside a full-replace save
    runs,             \* save calls finished so far (all with the same input)
    after1,           \* the table as the first save call left it
    allOk,            \* every save call so far returned normally
    dbFailures,       \* database errors injected so far (bounded)
    \* ---- DatabaseManager.get_connection scopes -----------------------------
    cpc,              \* per scope: "out", "body" or "exited"
    conn,             \* per scope: "none", "held" or "returned"
    tx,               \* per scope: transaction state of its connection
    raised,           \* per scope: the error the body (or getconn) raised
    events,           \* per scope: what the context manager did, in order
    bodySteps,        \* per scope: statements executed in the body
    \* ---- SafetyDataPipeline.run --------------------------------------------
    data_types,       \* argument: <<"None">> or the selected names
    init_db,          \* argument
    skip_prereq,      \* argument
    ppc,              \* position inside run
    idx,              \* next entry of data_types to collect
    results,          \* the results dict of run_data_collection
    ret,              \* what run returned
    connection_pool,  \* "open" or "closed"
    closeCalls,       \* close_all_connections calls of this invocation
    exitPath,         \* the path on which run ended
    attempts,         \* what happened to each selected entry, in order
    \* ---- record processing of the collection controllers -------------------
    recCtrl,          \* the controller whose fetch_data loop is exercised
    raw,              \* the raw records the provider returned
    rpos,             \* next raw record to process
    processed_data,   \* the records process_record kept, in order
    persisted,        \* the rows written by the save that follows
    recpc,            \* "process", "save" or "done"
    \* ---- upstream HTTP clients ---------------------------------------------
    client,           \* "api_client" (APIClient) or "data_go_kr" (DataGoKrAPI)
    attempt,          \* the loop variable of the retry loop
    statuses,         \* the outcome of every HTTP attempt made, in order
    httpResult,       \* "pending", or what the caller received
    \* ---- utils.geocoding.KakaoGeocoder (rate-limited) ----------------------
    api_key,          \* whether settings.KAKAO_API_KEY is set
    daily_request_count,
    geoCalls,         \* coordinate_to_address calls made in this behaviour
    netCalls,         \* requests sent in the process lifetime
    failedCalls,      \* requests sent that did not get a success status
    geoLast,          \* how the last call ended, and whether it sent a request
    \* ---- scripts.geocoding.KakaoGeocoder (disk-cached) ---------------------
    cache_key_set,    \* whether the geocoder has an API key
    cache,            \* self.cache: address -> "missing", "found", "negative"
    request_count,    \* self.request_count
    cacheCalls,       \* geocode calls made in this behaviour
    lastGeocode,      \* the last geocode call: address, result, requests sent
    \* ---- CPTEDCalculator ---------------------------------------------------
    factors,          \* the SafetyFactors argument
    area_size,        \* the area argument, km2
    safety_score,     \* the SafetyScore returned, or the pending marker
    \* ---- DongSafetyCalculator.calculate_all_dong_safety -------------------
    dong_limit,       \* the limit argument (0 for None)
    dong_list,        \* the neighborhoods the run iterates over
    dpos,             \* neighborhoods the loop has passed
    grade_distribution, \* results['grade_distribution']
    success_count,
    error_count,
    processed_count,  \* the local 'processed'
    dong_safety_scores, \* table: neighborhood -> stored grade, or "none"
    bucket_of,        \* per neighborhood, the buckets it was counted in
    dongpc,           \* "start", "loop", "done", "raised"
    \* ---- SafetyAnalyzer.normalize_dong_name --------------------------------
    dong_name,        \* the argument of the first call
    normalized,       \* the results of the successive applications
    \* ---- KakaoGeocoder (disk cache): geocode_batch and _save_cache --------
    cache_len,        \* len(self.cache)
    disk_len,         \* entries in the cache file
    disk_writable,    \* whether _save_cache can write the file
    lookups,          \* geocode calls made by the batch
    flushpc,          \* "running", "done"
    \* ---- ODCloudAPIClient.fetch_all_pages ----------------------------------
    max_pages,        \* the max_pages argument (0 for None)
    per_page,         \* the per_page argument
    total_rows,       \* rows the provider holds (its totalCount)
    page_no,          \* the local 'page'
    all_data,         \* len(all_data)
    fetchFailures,    \* fetch_page calls that returned None
    fetchpc,          \* "loop", "returned", "raised"
    \* ---- UltraFastCompletion.process_in_chunks ----------------------------
    cctv_rows,        \* table: id -> [dong filled, coordinates present]
    chunk_size,       \* the chunk_size argument
    remaining,        \* the count taken before the loop
    fill_offset,      \* the local 'offset'
    chunk_data,       \* ids of the chunk being processed
    task,             \* per id: "none", "queued", "running", "name",
                      \* "absent", "consumed"
    submitted,        \* ids handed to geocode_single_record so far
    consumed,         \* futures the as_completed loop has taken
    named,            \* of those, the ones whose result was a name
    writes,           \* UPDATE statements issued
    fillpc            \* "start", "loop", "pool", "done"

schedVars == <<sched, prov, hasUnique, today, daily_used, last_reset_date,
               is_running, jobs, phase, step, upstream, loc, stored,
               passesToday, downs, apiCallsToday, obs>>

dbVars == <<dbCtrl, table, input, dbpc, runs, after1, allOk, dbFailures>>

connVars == <<cpc, conn, tx, raised, events, bodySteps>>

pipeVars == <<data_types, init_db, skip_prereq, ppc, idx, results, ret,
              connection_pool, closeCalls, exitPath, attempts>>

recVars == <<recCtrl, raw, rpos, processed_data, persisted, recpc>>

\* the variables of the utility parts
httpVars == <<client, attempt, statuses, httpResult>>

geoVars == <<api_key, daily_request_count, geoCalls, netCalls, failedCalls,
             geoLast>>

cacheVars == <<cache_key_set, cache, request_count, cacheCalls, lastGeocode>>

scoreVars == <<factors, area_size, safety_score>>

dongVars ==
    <<dong_limit, dong_list, dpos, grade_distribution, success_count,
      error_count, processed_count, dong_safety_scores, bucket_of, dongpc>>

normVars == <<dong_name, normalized>>

flushVars == <<cache_len, disk_len, disk_writable, lookups, flushpc>>

\* the variables of the cache file, the paged fetch and the backfill
pagesVars ==
    <<max_pages, per_page, total_rows, page_no, all_data, fetchFailures,
      fetchpc>>

fillVars ==
    <<cctv_rows, chunk_size, remaining, fill_offset, chunk_data, task,
      submitted, consumed, named, writes, fillpc>>

lateVars == <<flushVars, pagesVars, fillVars>>

utilVars ==
    <<recVars, httpVars, geoVars, cacheVars, scoreVars, dongVars, normVars,
      lateVars>>

vars == <<schedVars, dbVars, connVars, pipeVars, utilVars>>

(***************************************************************************)
(* Program constants                                                       *)
(***************************************************************************)
OffenderDailyLimit == 9500
OffenderBatchSize == 9000
OffenderMinRemaining == 1000
OffenderControllerLimit == 9500
OffenderDefaultTotal == 600201
StreetlightDailyLimit == 90000
StreetlightBatchSize == 1000
StreetlightControllerLimit == 95000
PageSize == 1000

(***************************************************************************)
(* Bounds of the model                                                     *)
(***************************************************************************)
SmallTotal == 3500          \* a dataset a few passes complete
LargeTotal == 95500         \* a dataset larger than one day's quota
MaxDay == 1                 \* dates 0..MaxDay
PassBoundOffender == 3      \* passes per date, offender scheduler
PassBoundStreetlight == 92  \* passes per date, streetlight scheduler
MaxDownPasses == 1          \* passes that meet a failing upstream
NumKeys == 2                \* distinct natural keys
NumVals == 2                \* distinct values of the mutable columns
MaxBatch == 2               \* records per save call
MaxInitRows == 1            \* rows in the table before the first save
MaxRuns == 2                \* save calls with the same input
MaxDbFailures == 1          \* database errors
NumScopes == 2              \* get_connection scopes (nested or sequential)
MaxBodySteps == 2           \* statements executed inside one scope
MaxSelected == 2            \* entries in the data_types argument
MaxRaw == 2                 \* raw records in one fetched batch
NearCeiling == 3            \* distance to the ceiling of a long-running geocoder
MaxGeoCalls == 6            \* coordinate_to_address calls
NumAddresses == 2           \* distinct non-empty addresses
Max429 == 2                 \* 429 responses in a row before another outcome
MaxCacheCalls == 4          \* geocode calls
MaxDongs == 2               \* neighborhoods in the driving dataset
MaxNameLen == 4             \* characters in a neighborhood name
MaxLookups == 120           \* addresses in one geocode_batch run
MaxPagesArg == 3            \* largest max_pages argument
MaxPerPage == 2             \* largest per_page argument
MaxTotalRows == 5           \* rows the provider holds
NumCctvRows == 4            \* camera rows without a neighborhood

Schedulers == {"offender", "streetlight"}

Providers ==
    { [total |-> SmallTotal, pageRows |-> PageSize, good |-> TRUE],
      [total |-> LargeTotal, pageRows |-> PageSize, good |-> TRUE],
      [total |-> LargeTotal, pageRows |-> 1, good |-> FALSE] }

NPages == (LargeTotal + PageSize - 1) \div PageSize

Min(a, b) == IF a < b THEN a ELSE b
Max(a, b) == IF a > b THEN a ELSE b

daily_limit == IF sched = "offender" THEN OffenderDailyLimit ELSE StreetlightDailyLimit
batch_size == IF sched = "offender" THEN OffenderBatchSize ELSE StreetlightBatchSize
PassBound == IF sched = "offender" THEN PassBoundOffender ELSE PassBoundStreetlight

\* rows the provider returns for page p
PageRowsAt(p) ==
    LET r == prov.total - (p - 1) * prov.pageRows
    IN  IF r <= 0 THEN 0 ELSE Min(r, prov.pageRows)

RECURSIVE SumStored(_, _)
SumStored(f, n) == IF n = 0 THEN 0 ELSE f[n] + SumStored(f, n - 1)

\* SELECT COUNT(*) of the destination table
DBCount == SumStored(stored, NPages)


(***************************************************************************)
(* Scheduler operations (pure parts)                                       *)
(***************************************************************************)

\* variant: the new date is recorded but the counter is kept
reset_daily_counter_KeepCount(used, last, cur) ==
    IF cur > last
    THEN [daily_used |-> used, last_reset_date |-> cur]
    ELSE [daily_used |-> used, last_reset_date |-> last]

\* reset_daily_counter: the counter restarts when the date has advanced
reset_daily_counter(used, last, cur) ==
    IF cur > last
    THEN [daily_used |-> 0, last_reset_date |-> cur]
    ELSE [daily_used |-> used, last_reset_date |-> last]

\* variant: the comparisons never block a pass
check_daily_limit_NeverBlocks(used) == TRUE

\* the comparisons of check_daily_limit that follow the reset
check_daily_limit(used) ==
    IF used >= daily_limit THEN FALSE
    ELSE IF daily_limit - used <
            (IF sched = "offender" THEN OffenderMinRemaining ELSE batch_size)
         THEN FALSE
         ELSE TRUE

\* variant: both schedulers skip past the page in progress
start_page_AlwaysSkip(current_count) == (current_count \div 1000) + 2

\* the page a pass resumes from
start_page(current_count) ==
    LET completed_pages == (current_count \div 1000) + 1
    IN  IF sched = "offender"
        THEN IF current_count % 1000 = 0 THEN completed_pages
                                         ELSE completed_pages + 1
        ELSE completed_pages + 1

\* variant: the pending schedule is left in place
stop_scheduler_NoClear(running, pending, logs) ==
    IF ~running
    THEN [is_running |-> running, jobs |-> pending, stopLogs |-> logs]
    ELSE [is_running |-> FALSE, jobs |-> pending, stopLogs |-> logs + 1]

\* stop_scheduler, as a function of the fields it touches
stop_scheduler(running, pending, logs) ==
    IF ~running
    THEN [is_running |-> running, jobs |-> pending, stopLogs |-> logs]
    ELSE [is_running |-> FALSE, jobs |-> 0, stopLogs |-> logs + 1]

\* the scheduler's view of controller.get_progress_info()
get_progress_info ==
    [current_count |-> DBCount,
     total_count |-> IF upstream = "up" THEN prov.total
                     ELSE IF sched = "offender" THEN OffenderDefaultTotal
                     ELSE 0]

\* INSERT ... ON CONFLICT DO UPDATE of n rows of provider page p
Upsert(tbl, p, n) == [tbl EXCEPT ![p] = Max(@, n)]
\* plain INSERT of n rows of provider page p
PlainInsert(tbl, p, n) == [tbl EXCEPT ![p] = @ + n]

RECURSIVE SaveAppend(_, _)
\* StreetlightBatchController.save_to_database_append over the fetched batch
SaveAppend(tbl, batch) ==
    IF batch = <<>> THEN tbl
    ELSE LET b == Head(batch)
         IN  SaveAppend(IF hasUnique THEN Upsert(tbl, b[1], b[2])
                                     ELSE PlainInsert(tbl, b[1], b[2]),
                        Tail(batch))

RECURSIVE BatchLen(_)
BatchLen(batch) == IF batch = <<>> THEN 0 ELSE Head(batch)[2] + BatchLen(Tail(batch))

NoLoc == [current_count |-> 0, total_count |-> 0, page |-> 0,
          total_api_calls |-> 0, total_fetched |-> 0, batch |-> <<>>,
          success |-> FALSE, api_calls_used |-> 0, probed |-> FALSE]

NoObs == [passNo |-> 0, preBlocked |-> FALSE, usedBefore |-> 0,
          passCalls |-> 0, skipLogged |-> FALSE, ctrlInvoked |-> FALSE,
          completedAt |-> 0, resetFrom |-> -1, interrupted |-> FALSE,
          stopLogs |-> 0]

SchedInit ==
    /\ sched \in Schedulers
    /\ prov \in Providers
    /\ hasUnique \in (IF sched = "streetlight" THEN BOOLEAN ELSE {TRUE})
    /\ today = 0
    /\ daily_used = 0
    /\ last_reset_date = 0
    /\ is_running = FALSE
    /\ jobs = 0
    /\ phase = "new"
    /\ step = "none"
    /\ upstream = "up"
    /\ loc = NoLoc
    /\ stored = [p \in 1..NPages |-> 0]
    /\ passesToday = 0
    /\ downs = 0
    /\ apiCallsToday = 0
    /\ obs = NoObs

(***************************************************************************)
(* Scheduler actions                                                       *)
(***************************************************************************)

\* the calendar date advances while the process is between passes
AdvanceDay ==
    /\ today < MaxDay
    /\ step = "none"
    /\ phase \in {"new", "polling"}
    /\ today' = today + 1
    /\ passesToday' = 0
    /\ apiCallsToday' = 0
    /\ UNCHANGED <<sched, prov, hasUnique, daily_used, last_reset_date,
                   is_running, jobs, phase, step, upstream, loc, stored,
                   downs, obs>>

\* start_scheduler up to the call of the initial collect_batch
StartScheduler ==
    /\ phase = "new"
    /\ ~is_running
    /\ is_running' = TRUE
    /\ jobs' = jobs + 1
    /\ phase' = "initial"
    /\ step' = "check"
    /\ UNCHANGED <<sched, prov, hasUnique, today, daily_used, last_reset_date,
                   upstream, loc, stored, passesToday, downs, apiCallsToday,
                   obs>>

\* the polling loop: schedule.run_pending() finds the job due
RunPending ==
    /\ phase = "polling"
    /\ step = "none"
    /\ is_running
    /\ jobs > 0
    /\ passesToday < PassBound
    /\ phase' = "scheduled"
    /\ step' = "check"
    /\ UNCHANGED <<sched, prov, hasUnique, today, daily_used, last_reset_date,
                   is_running, jobs, upstream, loc, stored, passesToday,
                   downs, apiCallsToday, obs>>

\* collect_batch: check_daily_limit (with reset_daily_counter), skip or go on
CheckDailyLimit ==
    /\ step = "check"
    /\ LET r == reset_daily_counter(daily_used, last_reset_date, today)
           ok == check_daily_limit(r.daily_used)
       IN  /\ daily_used' = r.daily_used
           /\ last_reset_date' = r.last_reset_date
           /\ obs' = [obs EXCEPT
                  !.passNo = @ + 1,
                  !.preBlocked = (daily_used >= daily_limit
                                  /\ ~(today > last_reset_date)),
                  !.usedBefore = daily_used,
                  !.passCalls = 0,
                  !.skipLogged = ~ok,
                  !.ctrlInvoked = FALSE,
                  !.resetFrom = IF r.last_reset_date # last_reset_date
                                THEN daily_used ELSE @]
           /\ IF ok
              THEN /\ step' = "probe"
                   /\ phase' = phase
                   /\ \E u \in {"up", "down"} :
                        /\ u = "down" => downs < MaxDownPasses
                        /\ upstream' = u
                        /\ downs' = IF u = "down" THEN downs + 1 ELSE downs
              ELSE /\ step' = "none"
                   /\ phase' = "polling"
                   /\ UNCHANGED <<upstream, downs>>
    /\ passesToday' = passesToday + 1
    /\ UNCHANGED <<sched, prov, hasUnique, today, is_running, jobs, loc,
                   stored, apiCallsToday>>

\* collect_batch: progress probe, completion test, start page
ProbeProgress ==
    /\ step = "probe"
    /\ LET pr == get_progress_info
           st == stop_scheduler(is_running, jobs, obs.stopLogs)
       IN  IF pr.current_count >= pr.total_count
           THEN /\ is_running' = st.is_running
                /\ jobs' = st.jobs
                /\ obs' = [obs EXCEPT !.passCalls = @ + 1,
                                      !.stopLogs = st.stopLogs,
                                      !.completedAt = obs.passNo]
                /\ step' = "none"
                /\ phase' = "polling"
                /\ loc' = [NoLoc EXCEPT !.current_count = pr.current_count,
                                        !.total_count = pr.total_count,
                                        !.probed = TRUE]
           ELSE /\ loc' = [NoLoc EXCEPT
                       !.current_count = pr.current_count,
                       !.total_count = pr.total_count,
                       !.probed = TRUE,
                       !.page = start_page(pr.current_count)]
                /\ obs' = [obs EXCEPT !.passCalls = @ + 1,
                                      !.ctrlInvoked = TRUE]
                /\ step' = "fetch"
                /\ UNCHANGED <<is_running, jobs, phase>>
    /\ apiCallsToday' = apiCallsToday + 1
    /\ UNCHANGED <<sched, prov, hasUnique, today, daily_used, last_reset_date,
                   upstream, stored, passesToday, downs>>

\* SexualOffenderBatchController.run_batch_update: one turn of its loop
FetchPageOffender ==
    /\ step = "fetch"
    /\ sched = "offender"
    /\ LET done(l) == [l EXCEPT !.success = TRUE,
                                !.api_calls_used = l.total_api_calls]
       IN  IF loc.total_api_calls >= OffenderControllerLimit
              \/ loc.total_fetched >= batch_size
           THEN /\ loc' = done(loc)
                /\ step' = "update"
                /\ UNCHANGED <<stored, apiCallsToday, obs>>
           ELSE LET called == [loc EXCEPT !.total_api_calls = @ + 1]
                    rows == PageRowsAt(loc.page)
                    processed == IF prov.good THEN rows ELSE 0
                    kept == Min(processed, batch_size - loc.total_fetched)
                    after == [called EXCEPT !.total_fetched = @ + kept,
                                            !.page = @ + 1]
                IN  /\ apiCallsToday' = apiCallsToday + 1
                    /\ obs' = [obs EXCEPT !.passCalls = @ + 1]
                    /\ IF upstream = "down" \/ rows = 0
                       THEN /\ loc' = done(called)
                            /\ step' = "update"
                            /\ UNCHANGED stored
                       ELSE /\ stored' = IF kept > 0
                                         THEN Upsert(stored, loc.page, kept)
                                         ELSE stored
                            /\ IF after.total_fetched >= batch_size
                               THEN loc' = done(after) /\ step' = "update"
                               ELSE loc' = after /\ step' = "fetch"
    /\ UNCHANGED <<sched, prov, hasUnique, today, daily_used, last_reset_date,
                   is_running, jobs, phase, upstream, passesToday, downs>>

\* StreetlightBatchController.fetch_data_batch: one turn of its loop
FetchPageStreetlight ==
    /\ step = "fetch"
    /\ sched = "streetlight"
    /\ LET rows == PageRowsAt(loc.page)
           valid == IF prov.good THEN rows ELSE 0
           processed == Min(valid, Min(batch_size - loc.total_fetched,
                               StreetlightControllerLimit - loc.total_fetched))
           after == [loc EXCEPT
                       !.total_api_calls = @ + 1,
                       !.total_fetched = @ + processed,
                       !.batch = IF processed > 0
                                 THEN Append(@, <<loc.page, processed>>)
                                 ELSE @]
       IN  IF upstream = "down" \/ rows = 0
           THEN /\ loc' = [loc EXCEPT !.total_api_calls = @ + 1]
                /\ step' = "save"
                /\ apiCallsToday' = apiCallsToday + 1
                /\ obs' = [obs EXCEPT !.passCalls = @ + 1]
           ELSE /\ apiCallsToday' = apiCallsToday + 1 + processed
                /\ obs' = [obs EXCEPT !.passCalls = @ + 1 + processed]
                /\ IF after.total_fetched >= batch_size
                      \/ after.total_fetched >= StreetlightControllerLimit
                      \/ rows < 1000
                   THEN loc' = after /\ step' = "save"
                   ELSE loc' = [after EXCEPT !.page = @ + 1] /\ step' = "fetch"
    /\ UNCHANGED <<sched, prov, hasUnique, today, daily_used, last_reset_date,
                   is_running, jobs, phase, upstream, stored, passesToday,
                   downs>>

\* StreetlightBatchController.run_batch_update after the fetch
SaveStreetlight ==
    /\ step = "save"
    /\ LET n == BatchLen(loc.batch)
       IN  IF n = 0
           THEN /\ loc' = [loc EXCEPT !.success = FALSE, !.api_calls_used = 0]
                /\ UNCHANGED stored
           ELSE /\ stored' = SaveAppend(stored, loc.batch)
                /\ loc' = [loc EXCEPT !.success = TRUE, !.api_calls_used = n]
    /\ step' = "update"
    /\ UNCHANGED <<sched, prov, hasUnique, today, daily_used, last_reset_date,
                   is_running, jobs, phase, upstream, passesToday, downs,
                   apiCallsToday, obs>>

\* collect_batch after the controller returned: statistics, second probe
UpdateStats ==
    /\ step = "update"
    /\ IF loc.success
       THEN /\ daily_used' = daily_used + loc.api_calls_used
            /\ apiCallsToday' = apiCallsToday + 1
            /\ obs' = [obs EXCEPT !.passCalls = @ + 1]
       ELSE UNCHANGED <<daily_used, apiCallsToday, obs>>
    /\ step' = "none"
    /\ phase' = "polling"
    /\ UNCHANGED <<sched, prov, hasUnique, today, last_reset_date, is_running,
                   jobs, upstream, loc, stored, passesToday, downs>>

\* the polling loop finds is_running false; the finally clause runs
LoopExit ==
    /\ phase = "polling"
    /\ step = "none"
    /\ ~is_running
    /\ LET st == stop_scheduler(is_running, jobs, obs.stopLogs)
       IN  /\ is_running' = st.is_running
           /\ jobs' = st.jobs
           /\ obs' = [obs EXCEPT !.stopLogs = st.stopLogs]
    /\ phase' = "returned"
    /\ UNCHANGED <<sched, prov, hasUnique, today, daily_used, last_reset_date,
                   step, upstream, loc, stored, passesToday, downs,
                   apiCallsToday>>

\* KeyboardInterrupt delivered to the process inside start_scheduler
Interrupt ==
    /\ phase \in {"initial", "polling", "scheduled"}
    /\ IF phase = "initial"
       THEN \* the initial pass runs before the try block
            /\ phase' = "aborted"
            /\ obs' = [obs EXCEPT !.interrupted = TRUE]
            /\ UNCHANGED <<is_running, jobs>>
       ELSE \* except KeyboardInterrupt ... finally: stop_scheduler()
            LET st == stop_scheduler(is_running, jobs, obs.stopLogs)
            IN  /\ is_running' = st.is_running
                /\ jobs' = st.jobs
                /\ obs' = [obs EXCEPT !.interrupted = TRUE,
                                      !.stopLogs = st.stopLogs]
                /\ phase' = "returned"
    /\ step' = "none"
    /\ UNCHANGED <<sched, prov, hasUnique, today, daily_used, last_reset_date,
                   upstream, loc, stored, passesToday, downs, apiCallsToday>>


(***************************************************************************)
(* Part 2 - the controllers' save operations.                              *)
(* A row is reduced to its natural key (0 stands for NULL) and one value   *)
(* standing for the mutable columns.  Upsert-mode controllers run one      *)
(* transaction; full-replace controllers run DELETE (committed) and then   *)
(* the bulk INSERT (a second transaction).                                 *)
(***************************************************************************)
NullKey == 0
Keys == 1..NumKeys
Vals == 1..NumVals

UpsertCtrls == {"police_station", "female_safety_house", "sexual_offender",
                "streetlight_batch"}
ReplaceCtrls == {"cctv", "streetlight", "delivery_box"}

\* keys a processed record of the controller can carry: process_raw_data of
\* the three upsert controllers drops or fails records without their key
\* fields, StreetlightController.process_record keeps management_number None
RecordKeys(c) ==
    IF c \in {"police_station", "female_safety_house", "sexual_offender"}
    THEN Keys ELSE Keys \cup {NullKey}

Rows(c) == [key : RecordKeys(c), val : Vals]

SeqsUpTo(S, n) == UNION { [1..k -> S] : k \in 0..n }

\* UNIQUE(...) treats NULL keys as distinct
UniqueOk(t) ==
    \A i, j \in 1..Len(t) :
        (i # j /\ t[i].key # NullKey) => t[i].key # t[j].key

\* variant: a conflicting row is left as it is (DO NOTHING)
UpsertRow_KeepExisting(t, r) ==
    IF r.key # NullKey /\ \E i \in 1..Len(t) : t[i].key = r.key
    THEN t
    ELSE Append(t, r)

\* one INSERT ... ON CONFLICT (key) DO UPDATE SET ... = EXCLUDED....
UpsertRow(t, r) ==
    IF r.key # NullKey /\ \E i \in 1..Len(t) : t[i].key = r.key
    THEN [i \in 1..Len(t) |-> IF t[i].key = r.key THEN r ELSE t[i]]
    ELSE Append(t, r)

RECURSIVE UpsertRows(_, _)
\* cursor.executemany(upsert, values): one statement per record, in order
UpsertRows(t, data) ==
    IF data = <<>> THEN t
    ELSE UpsertRows(UpsertRow(t, Head(data)), Tail(data))

\* variant: the DELETE leaves the rows in place
delete_all_KeepRows(t) == t

\* execute_non_query("DELETE FROM <table>"), committed
delete_all(t) == <<>>

\* cursor.executemany(insert, values) without conflict clause
InsertRows(t, data) == t \o data

\* StreetlightBatchController.save_to_database_append when no statement
\* fails: the upsert, or the plain INSERT it falls back to when the ON
\* CONFLICT target has no unique constraint
save_to_database_append(t, data, unique) ==
    IF data = <<>> THEN t
    ELSE IF unique THEN UpsertRows(t, data)
    ELSE InsertRows(t, data)

DbIdle ==
    /\ dbCtrl = "none"
    /\ table = <<>>
    /\ input = <<>>
    /\ dbpc = "idle"
    /\ runs = 0
    /\ after1 = <<>>
    /\ allOk = TRUE
    /\ dbFailures = 0

DbInit ==
    /\ dbCtrl \in UpsertCtrls \cup ReplaceCtrls
    /\ hasUnique \in (IF dbCtrl = "streetlight_batch" THEN BOOLEAN
                      ELSE IF dbCtrl \in UpsertCtrls THEN {TRUE} ELSE {FALSE})
    /\ table \in { t \in SeqsUpTo(Rows(dbCtrl), MaxInitRows) :
                      hasUnique => UniqueOk(t) }
    /\ input \in SeqsUpTo(Rows(dbCtrl), MaxBatch)
    /\ dbpc = "idle"
    /\ runs = 0
    /\ after1 = <<>>
    /\ allOk = TRUE
    /\ dbFailures = 0

Finished(t, ok) ==
    /\ table' = t
    /\ runs' = runs + 1
    /\ after1' = IF runs = 0 THEN t ELSE after1
    /\ allOk' = (allOk /\ ok)
    /\ dbpc' = "idle"

\* PoliceStation/FemaleSafetyHouse/SexualOffender save: one transaction
SaveUpsert ==
    /\ dbCtrl \in {"police_station", "female_safety_house", "sexual_offender"}
    /\ dbpc = "idle"
    /\ runs < MaxRuns
    /\ \/ /\ Finished(IF input = <<>> THEN table ELSE UpsertRows(table, input),
                      TRUE)
          /\ UNCHANGED dbFailures
       \/ \* the statement fails: rolled back, {'success': False}
          /\ input # <<>>
          /\ dbFailures < MaxDbFailures
          /\ dbFailures' = dbFailures + 1
          /\ Finished(table, FALSE)
    /\ UNCHANGED <<dbCtrl, input>>

\* StreetlightBatchController.save_to_database_append
SaveAppendStreetlight ==
    /\ dbCtrl = "streetlight_batch"
    /\ dbpc = "idle"
    /\ runs < MaxRuns
    /\ \/ /\ Finished(save_to_database_append(table, input, hasUnique), TRUE)
          /\ UNCHANGED dbFailures
       \/ \* both the upsert and the fallback INSERT fail: re-raised
          /\ input # <<>>
          /\ dbFailures < MaxDbFailures
          /\ dbFailures' = dbFailures + 1
          /\ Finished(table, FALSE)
    /\ UNCHANGED <<dbCtrl, input>>

\* CCTV/Streetlight/DeliveryBox save_to_database: guard and DELETE
SaveReplaceDelete ==
    /\ dbCtrl \in ReplaceCtrls
    /\ dbpc = "idle"
    /\ runs < MaxRuns
    /\ IF input = <<>>
       THEN Finished(table, TRUE)
       ELSE /\ table' = delete_all(table)
            /\ dbpc' = "deleted"
            /\ UNCHANGED <<runs, after1, allOk>>
    /\ UNCHANGED <<dbCtrl, input, dbFailures>>

\* CCTV/Streetlight/DeliveryBox save_to_database: the bulk INSERT
SaveReplaceInsert ==
    /\ dbCtrl \in ReplaceCtrls
    /\ dbpc = "deleted"
    /\ \/ /\ Finished(InsertRows(table, input), TRUE)
          /\ UNCHANGED dbFailures
       \/ \* execute_many fails: its transaction is rolled back, re-raised
          /\ dbFailures < MaxDbFailures
          /\ dbFailures' = dbFailures + 1
          /\ Finished(table, FALSE)
    /\ UNCHANGED <<dbCtrl, input>>

\* the orders in which n records can be handed over
Orders(n) == {f \in [1..n -> 1..n] : \A i, j \in 1..n : f[i] = f[j] => i = j}

\* PoliceStation/FemaleSafetyHouse/SexualOffender save of the records of
\* input in another order, in one call or split across two calls (an empty
\* part returns before any statement); after1 is the table the one call in
\* the given order produces
SaveReordered ==
    /\ dbCtrl \in {"police_station", "female_safety_house", "sexual_offender"}
    /\ dbpc = "idle"
    /\ runs = 0
    /\ \E f \in Orders(Len(input)), k \in 0..Len(input) :
         LET data == [i \in 1..Len(input) |-> input[f[i]]]
             first == SubSeq(data, 1, k)
             second == SubSeq(data, k + 1, Len(data))
         IN  table' = UpsertRows(UpsertRows(table, first), second)
    /\ after1' = UpsertRows(table, input)
    /\ runs' = 1
    /\ UNCHANGED <<dbCtrl, input, dbpc, allOk, dbFailures>>


(***************************************************************************)
(* Part 3 - DatabaseManager.get_connection.                                *)
(* The context manager is a generator: getconn and yield inside try, an    *)
(* "except Exception" clause that rolls back, logs and re-raises, and a    *)
(* finally clause that puts the connection back.                           *)
(***************************************************************************)
Scopes == 1..NumScopes
\* errors a body can raise; "KeyboardInterrupt" is not an Exception subclass
BodyErrors == {"DatabaseError", "ValueError", "KeyboardInterrupt"}
IsException(e) == e # "KeyboardInterrupt"

\* variant of get_connection_exit without the finally clause: the
\* connection is put back on the normal path only
get_connection_exit_NoFinally(err, hasConn) ==
    IF err = "none" THEN (IF hasConn THEN <<"putconn">> ELSE <<>>)
    ELSE IF IsException(err)
    THEN (IF hasConn THEN <<"rollback">> ELSE <<>>) \o <<"log", "raise">>
    ELSE <<"propagate">>

\* what get_connection does when the scope is left: err is "none" for a
\* normal completion, else the error raised at the yield (or by getconn)
get_connection_exit(err, hasConn) ==
    IF err = "none" THEN (IF hasConn THEN <<"putconn">> ELSE <<>>)
    ELSE IF IsException(err)
    THEN (IF hasConn THEN <<"rollback">> ELSE <<>>) \o <<"log">>
         \o (IF hasConn THEN <<"putconn">> ELSE <<>>) \o <<"raise">>
    ELSE (IF hasConn THEN <<"putconn">> ELSE <<>>) \o <<"propagate">>

Has(seq, e) == \E i \in 1..Len(seq) : seq[i] = e
IndexOf(seq, e) == CHOOSE i \in 1..Len(seq) : seq[i] = e

ConnIdle ==
    /\ cpc = [s \in Scopes |-> "out"]
    /\ conn = [s \in Scopes |-> "none"]
    /\ tx = [s \in Scopes |-> "idle"]
    /\ raised = [s \in Scopes |-> "none"]
    /\ events = [s \in Scopes |-> <<>>]
    /\ bodySteps = [s \in Scopes |-> 0]

\* leave the scope s with err: run the except / finally clauses
LeaveScope(s, err, hasConn) ==
    LET evs == get_connection_exit(err, hasConn) IN
    /\ cpc' = [cpc EXCEPT ![s] = "exited"]
    /\ raised' = [raised EXCEPT ![s] = err]
    /\ events' = [events EXCEPT ![s] = events[s] \o evs]
    /\ conn' = [conn EXCEPT ![s] = IF Has(evs, "putconn") THEN "returned"
                                    ELSE conn[s]]
    /\ tx' = [tx EXCEPT ![s] = IF Has(evs, "rollback") THEN "idle" ELSE tx[s]]

\* with db_manager.get_connection() as conn: - getconn succeeds
EnterScope(s) ==
    /\ cpc[s] = "out"
    /\ cpc' = [cpc EXCEPT ![s] = "body"]
    /\ conn' = [conn EXCEPT ![s] = "held"]
    /\ events' = [events EXCEPT ![s] = <<"getconn">>]
    /\ UNCHANGED <<tx, raised, bodySteps>>

\* getconn raises (pool exhausted, server unreachable): nothing checked out
EnterScopeFails(s) ==
    /\ cpc[s] = "out"
    /\ LeaveScope(s, "PoolError", FALSE)
    /\ UNCHANGED bodySteps

\* the body executes a statement (opens a transaction) or commits
BodyStatement(s) ==
    /\ cpc[s] = "body"
    /\ bodySteps[s] < MaxBodySteps
    /\ bodySteps' = [bodySteps EXCEPT ![s] = bodySteps[s] + 1]
    /\ \E t \in {"open", "idle"} : tx' = [tx EXCEPT ![s] = t]
    /\ UNCHANGED <<cpc, conn, raised, events>>

\* the body completes normally
ExitScopeNormal(s) ==
    /\ cpc[s] = "body"
    /\ LeaveScope(s, "none", TRUE)
    /\ UNCHANGED bodySteps

\* the body raises
ExitScopeRaise(s) ==
    /\ cpc[s] = "body"
    /\ \E e \in BodyErrors : LeaveScope(s, e, TRUE)
    /\ UNCHANGED bodySteps

ConnInit == ConnIdle

(***************************************************************************)
(* Part 4 - SafetyDataPipeline.run.                                        *)
(***************************************************************************)
\* self.controllers
Registered == {"cctv"}
\* names a caller can pass; "crime_facility" has no registered controller
TypeNames == {"cctv", "crime_facility"}

\* the entries run_data_collection iterates over
Selected ==
    IF data_types = <<"None">>
    THEN <<"cctv">>
    ELSE data_types

\* variant: step 5 of run ignores failures
run_result_IgnoreFailures(res) == TRUE

\* step 5 of run: successful_tasks == len(results)
run_result(res) == \A t \in DOMAIN res : res[t]

\* variant: close_all_connections does nothing
close_all_connections_Skip(p) == p

\* DatabaseManager.close_all_connections
close_all_connections(p) == IF p = "open" THEN "closed" ELSE p

PipeIdle ==
    /\ data_types = <<"None">>
    /\ init_db = FALSE
    /\ skip_prereq = FALSE
    /\ ppc = "idle"
    /\ idx = 1
    /\ results = << >>
    /\ ret = "none"
    /\ connection_pool = "open"
    /\ closeCalls = 0
    /\ exitPath = "none"
    /\ attempts = <<>>

PipeInit ==
    /\ data_types \in {<<"None">>} \cup SeqsUpTo(TypeNames, MaxSelected)
    /\ init_db \in BOOLEAN
    /\ skip_prereq \in BOOLEAN
    /\ ppc = "prereq"
    /\ idx = 1
    /\ results = << >>
    /\ ret = "none"
    /\ connection_pool = "open"
    /\ closeCalls = 0
    /\ exitPath = "none"
    /\ attempts = <<>>

\* run ends: the return value (or the propagating interrupt) and the
\* finally clause
RunExit(value, path) ==
    /\ ret' = value
    /\ exitPath' = path
    /\ ppc' = "done"
    /\ connection_pool' = close_all_connections(connection_pool)
    /\ closeCalls' = closeCalls + 1

\* step 1: if not skip_prereq and not self.check_prerequisites()
CheckPrerequisites ==
    /\ ppc = "prereq"
    /\ \/ /\ ppc' = "initdb"
          /\ UNCHANGED <<ret, exitPath, connection_pool, closeCalls>>
       \/ /\ ~skip_prereq
          /\ RunExit("false", "prereq_failed")
       \/ /\ ~skip_prereq
          /\ RunExit("false", "exception")
    /\ UNCHANGED <<data_types, init_db, skip_prereq, idx, results, attempts>>

\* step 2: if init_db: if not self.initialize_database()
InitializeDatabase ==
    /\ ppc = "initdb"
    /\ \/ /\ ppc' = "collect"
          /\ UNCHANGED <<ret, exitPath, connection_pool, closeCalls>>
       \/ /\ init_db
          /\ RunExit("false", "schema_failed")
    /\ UNCHANGED <<data_types, init_db, skip_prereq, idx, results, attempts>>

\* variant: only a successful result is stored
record_result_SuccessOnly(res, t, o) ==
    IF o = "success"
    THEN [x \in DOMAIN res \cup {t} |-> IF x = t THEN TRUE ELSE res[x]]
    ELSE res

\* results[data_type] = result, or the failure dict of the except clause;
\* only the success flag of the stored dict is kept
record_result(res, t, o) ==
    [x \in DOMAIN res \cup {t} |-> IF x = t THEN o = "success" ELSE res[x]]

\* step 3: one iteration of the loop of run_data_collection
CollectOne ==
    /\ ppc = "collect"
    /\ idx <= Len(Selected)
    /\ LET t == Selected[idx] IN
       IF t \notin Registered
       THEN /\ attempts' = Append(attempts, [type |-> t, outcome |-> "skipped"])
            /\ UNCHANGED results
       ELSE \E o \in {"success", "failure", "exception"} :
            /\ attempts' = Append(attempts, [type |-> t, outcome |-> o])
            /\ results' = record_result(results, t, o)
    /\ idx' = idx + 1
    /\ UNCHANGED <<data_types, init_db, skip_prereq, ppc, ret,
                   connection_pool, closeCalls, exitPath>>

\* steps 4 and 5: generate_report, then the comparison and the return
ReportAndReturn ==
    /\ ppc = "collect"
    /\ idx > Len(Selected)
    /\ \/ IF run_result(results)
          THEN RunExit("true", "success")
          ELSE RunExit("false", "controller_failed")
       \/ RunExit("false", "exception")
    /\ UNCHANGED <<data_types, init_db, skip_prereq, idx, results, attempts>>

\* KeyboardInterrupt anywhere inside the try block: not caught by
\* "except Exception", the finally clause runs and it propagates
PipeInterrupt ==
    /\ ppc \in {"prereq", "initdb", "collect"}
    /\ RunExit("raised", "interrupt")
    /\ UNCHANGED <<data_types, init_db, skip_prereq, idx, results, attempts>>

(***************************************************************************)
(* Part 5 - record processing of the collection controllers.               *)
(* A raw field is a record [kind, val]: kind "empty" (absent, None or ""), *)
(* "text" (a string float() rejects) or "num" (val in tenths of a degree). *)
(* None is the processed_data value of an absent or rejected number.            *)
(***************************************************************************)
None == -1
Empty == [kind |-> "empty", val |-> 0]
Text == [kind |-> "text", val |-> 0]
Num(n) == [kind |-> "num", val |-> n]

RecCtrls == {"cctv", "streetlight", "delivery_box"}

\* DataProcessor.validate_coordinates: the Seoul bounds, in tenths
SeoulMinLat == 374
SeoulMaxLat == 377
SeoulMinLon == 1267
SeoulMaxLon == 1273
\* StreetlightController.process_record: the Korea bounds, in tenths
KoreaMinLat == 330
KoreaMaxLat == 430
KoreaMinLon == 1240
KoreaMaxLon == 1320

RawLats == {Empty, Text, Num(0), Num(375), Num(350), Num(500)}
RawLons == {Empty, Text, Num(1270), Num(1400)}
RawTexts == {Empty, Text}

\* the raw records a provider can return to controller c; fields the
\* controller does not read are left out
RawRecords(c) ==
    [name : IF c = "delivery_box" THEN RawTexts ELSE {Empty},
     address : IF c = "streetlight" THEN {Empty} ELSE RawTexts,
     latitude : RawLats,
     longitude : RawLons,
     count : IF c = "cctv" THEN {Text, Num(2)} ELSE {Empty}]

\* python truthiness of a processed_data number
Truthy(x) == x # None /\ x # 0

\* float(value) if value else None, ValueError / TypeError giving None
to_float(v) == IF v.kind = "num" THEN v.val ELSE None

\* int(value) if value else 1, ValueError / TypeError giving 1
to_count(v) == IF v.kind = "num" THEN v.val ELSE 1

validate_coordinates(lat, lon) ==
    /\ Truthy(lat) /\ Truthy(lon)
    /\ SeoulMinLat <= lat /\ lat <= SeoulMaxLat
    /\ SeoulMinLon <= lon /\ lon <= SeoulMaxLon

\* variant: every record is kept
process_record_KeepAll(c, r, i) ==
    << [src |-> i, latitude |-> to_float(r.latitude),
        longitude |-> to_float(r.longitude), count |-> to_count(r.count)] >>

\* process_record of controller c on raw record r (the i-th of the batch):
\* the empty sequence for None, else the processed record
process_record(c, r, i) ==
    LET lat == to_float(r.latitude)
        lon == to_float(r.longitude)
        kept == << [src |-> i, latitude |-> lat, longitude |-> lon,
                    count |-> to_count(r.count)] >>
    IN  CASE c = "cctv" ->
               IF r.address.kind = "empty" THEN <<>> ELSE kept
          [] c = "delivery_box" ->
               IF r.name.kind = "empty" /\ r.address.kind = "empty"
               THEN <<>> ELSE kept
          [] c = "streetlight" ->
               IF ~Truthy(lat) \/ ~Truthy(lon) THEN <<>>
               ELSE IF ~(KoreaMinLat <= lat /\ lat <= KoreaMaxLat
                         /\ KoreaMinLon <= lon /\ lon <= KoreaMaxLon)
                    THEN <<>>
                    ELSE kept

RecIdle ==
    /\ recCtrl = "none"
    /\ raw = <<>>
    /\ rpos = 1
    /\ processed_data = <<>>
    /\ persisted = <<>>
    /\ recpc = "idle"

RecInit ==
    /\ recCtrl \in RecCtrls
    /\ raw \in SeqsUpTo(RawRecords(recCtrl), MaxRaw)
    /\ rpos = 1
    /\ processed_data = <<>>
    /\ persisted = <<>>
    /\ recpc = "process"

\* fetch_data: one iteration of "for record in raw_data"
ProcessRecord ==
    /\ recpc = "process"
    /\ rpos <= Len(raw)
    /\ processed_data' =
           processed_data \o process_record(recCtrl, raw[rpos], rpos)
    /\ rpos' = rpos + 1
    /\ UNCHANGED <<recCtrl, raw, persisted, recpc>>

\* run_update: save_to_database(data) on the processed_data records
SaveProcessed ==
    /\ recpc = "process"
    /\ rpos > Len(raw)
    /\ persisted' = processed_data
    /\ recpc' = "done"
    /\ UNCHANGED <<recCtrl, raw, rpos, processed_data>>

(***************************************************************************)
(* Part 6 - the retry loop of the upstream HTTP clients.                   *)
(***************************************************************************)
\* settings.API_MAX_RETRIES (default) and DataGoKrAPI.max_retries
max_retries == 3

Clients == {"api_client", "data_go_kr"}

\* what one attempt can meet
Responses == {"200_json", "200_invalid", "429", "other_status",
              "timeout", "connection_error"}

\* variant: a status that is neither 200 nor 429 ends the request
after_attempt_NoRetryOnStatus(c, resp, att) ==
    CASE resp = "200_json" -> "return_data"
      [] resp = "200_invalid" -> "return_none"
      [] resp = "other_status" -> "return_none"
      [] OTHER -> IF att < max_retries - 1 THEN "next_attempt"
                  ELSE "return_none"

\* what the loop body does with the outcome of attempt att (0-based):
\* return the data, return None, or go on to the next iteration.  In
\* APIClient every branch but the 200 one falls to the end of the body and
\* the None is returned after the loop; DataGoKrAPI tests
\* attempt < max_retries - 1 in each branch.
after_attempt(c, resp, att) ==
    CASE resp = "200_json" -> "return_data"
      [] resp = "200_invalid" -> "return_none"
      [] resp = "429" ->
           IF att < max_retries - 1 THEN "next_attempt" ELSE "return_none"
      [] OTHER ->
           IF c = "data_go_kr"
           THEN IF att < max_retries - 1 THEN "next_attempt"
                ELSE "return_none"
           ELSE IF att + 1 < max_retries THEN "next_attempt"
                ELSE "return_none"

HttpIdle ==
    /\ client = "none"
    /\ attempt = 0
    /\ statuses = <<>>
    /\ httpResult = "pending"

HttpInit ==
    /\ client \in Clients
    /\ attempt = 0
    /\ statuses = <<>>
    /\ httpResult = "pending"

\* one iteration of "for attempt in range(self.max_retries)"
HttpAttempt ==
    /\ httpResult = "pending"
    /\ attempt < max_retries
    /\ \E resp \in Responses :
         LET todo == after_attempt(client, resp, attempt) IN
         /\ statuses' = Append(statuses, resp)
         /\ httpResult' = CASE todo = "return_data" -> "data"
                            [] todo = "return_none" -> "absent"
                            [] OTHER -> "pending"
         /\ attempt' = IF todo = "next_attempt" THEN attempt + 1 ELSE attempt
    /\ UNCHANGED client

\* the caller issues its next request with the same client
HttpNextRequest ==
    /\ httpResult # "pending"
    /\ attempt' = 0
    /\ statuses' = <<>>
    /\ httpResult' = "pending"
    /\ UNCHANGED client

(***************************************************************************)
(* Part 7 - utils.geocoding.KakaoGeocoder, the rate-limited reverse        *)
(* geocoder.                                                               *)
(***************************************************************************)
\* self.daily_limit
GeoDailyLimit == 250000

\* what session.get / raise_for_status / json() can meet
GeoNet == {"documents", "no_documents", "invalid_json", "malformed",
           "http_error", "http_429", "timeout", "connection_error"}

\* variant: the ceiling is never consulted
can_make_request_Always(count) == TRUE

\* _can_make_request
can_make_request(count) == count < GeoDailyLimit

\* get_remaining_requests
get_remaining_requests(count) == Max(0, GeoDailyLimit - count)

\* coordinate_to_address as a function of the key, the counter and what the
\* network does: how the call ends, whether a request was sent, whether it
\* got a success status, and the counter afterwards.  When session.get
\* itself raises, the RequestException handler reads response.status_code
\* with response unbound, and that error leaves the function.
coordinate_to_address(key, count, net) ==
    IF ~key
    THEN [end |-> "absent", sent |-> FALSE, ok |-> FALSE, count |-> count]
    ELSE IF ~can_make_request(count)
    THEN [end |-> "absent", sent |-> FALSE, ok |-> FALSE, count |-> count]
    ELSE CASE net \in {"timeout", "connection_error"} ->
                [end |-> "raised", sent |-> TRUE, ok |-> FALSE,
                 count |-> count]
           [] net \in {"http_error", "http_429"} ->
                [end |-> "absent", sent |-> TRUE, ok |-> FALSE,
                 count |-> count]
           [] net = "documents" ->
                [end |-> "result", sent |-> TRUE, ok |-> TRUE,
                 count |-> count + 1]
           [] OTHER ->
                [end |-> "absent", sent |-> TRUE, ok |-> TRUE,
                 count |-> count + 1]

GeoIdle ==
    /\ api_key = TRUE
    /\ daily_request_count = 0
    /\ geoCalls = 0
    /\ netCalls = 0
    /\ failedCalls = 0
    /\ geoLast = [end |-> "none", sent |-> FALSE]

\* a fresh geocoder, or one that has already served GeoDailyLimit -
\* NearCeiling lookups
GeoInit ==
    /\ api_key \in BOOLEAN
    /\ daily_request_count \in
           IF api_key THEN {0, GeoDailyLimit - NearCeiling} ELSE {0}
    /\ geoCalls = 0
    /\ netCalls = daily_request_count
    /\ failedCalls = 0
    /\ geoLast = [end |-> "none", sent |-> FALSE]

\* one call of coordinate_to_address
CoordinateToAddress ==
    /\ geoCalls < MaxGeoCalls
    /\ \E net \in GeoNet :
         LET r == coordinate_to_address(api_key, daily_request_count, net) IN
         /\ daily_request_count' = r.count
         /\ netCalls' = netCalls + (IF r.sent THEN 1 ELSE 0)
         /\ failedCalls' = failedCalls + (IF r.sent /\ ~r.ok THEN 1 ELSE 0)
         /\ geoLast' = [end |-> r.end, sent |-> r.sent]
    /\ geoCalls' = geoCalls + 1
    /\ UNCHANGED api_key

(***************************************************************************)
(* Part 8 - scripts.geocoding.KakaoGeocoder, the disk-cached forward       *)
(* geocoder.  Address 0 stands for an empty or blank string.               *)
(***************************************************************************)
Addresses == 1..NumAddresses
BlankAddress == 0

\* what the request that is not answered 429 meets
CacheNet == {"documents", "no_documents", "bad_document", "http_error",
             "request_error", "invalid_json"}

\* _make_request: the value returned (or "raised") and the requests sent;
\* n429 responses with status 429 come first, each answered by the
\* recursive retry.  response.json() on an undecodable 200 body raises an
\* error that is a RequestException in some versions of the HTTP library
\* and a plain ValueError in others: jsonCaught says which.
make_request(key, net, n429, jsonCaught) ==
    IF ~key THEN [value |-> "none", requests |-> 0]
    ELSE CASE net = "request_error" ->
                \* requests.get raised: request_count is not incremented
                [value |-> "none", requests |-> n429]
           [] net = "http_error" ->
                [value |-> "none", requests |-> n429 + 1]
           [] net = "invalid_json" ->
                [value |-> IF jsonCaught THEN "none" ELSE "raised",
                 requests |-> n429 + 1]
           [] OTHER -> [value |-> net, requests |-> n429 + 1]

\* variant: a lookup that finds nothing is not remembered
geocode_NoNegativeCache(c, key, a, net, n429, jsonCaught) ==
    IF a = BlankAddress
    THEN [result |-> "negative", cache |-> c, requests |-> 0]
    ELSE IF c[a] # "missing"
    THEN [result |-> c[a], cache |-> c, requests |-> 0]
    ELSE LET r == make_request(key, net, n429, jsonCaught) IN
         IF r.value = "raised"
         THEN [result |-> "raised", cache |-> c, requests |-> r.requests]
         ELSE IF r.value = "documents"
         THEN [result |-> "found", cache |-> [c EXCEPT ![a] = "found"],
               requests |-> r.requests]
         ELSE [result |-> "negative", cache |-> c, requests |-> r.requests]

\* geocode: the result ("found" for a coordinate pair, "negative" for
\* (None, None), "raised"), the cache afterwards and the requests sent
geocode(c, key, a, net, n429, jsonCaught) ==
    IF a = BlankAddress
    THEN [result |-> "negative", cache |-> c, requests |-> 0]
    ELSE IF c[a] # "missing"
    THEN [result |-> c[a], cache |-> c, requests |-> 0]
    ELSE LET r == make_request(key, net, n429, jsonCaught) IN
         IF r.value = "raised"
         THEN [result |-> "raised", cache |-> c, requests |-> r.requests]
         ELSE IF r.value = "documents"
         THEN [result |-> "found", cache |-> [c EXCEPT ![a] = "found"],
               requests |-> r.requests]
         ELSE [result |-> "negative", cache |-> [c EXCEPT ![a] = "negative"],
               requests |-> r.requests]

CacheIdle ==
    /\ cache_key_set = TRUE
    /\ cache = [a \in Addresses |-> "missing"]
    /\ request_count = 0
    /\ cacheCalls = 0
    /\ lastGeocode = [address |-> BlankAddress, result |-> "none",
                      requests |-> 0, cached |-> FALSE]

\* __init__: the cache is whatever _load_cache found on disk
CacheInit ==
    /\ cache_key_set \in BOOLEAN
    /\ cache \in [Addresses -> {"missing", "found", "negative"}]
    /\ request_count = 0
    /\ cacheCalls = 0
    /\ lastGeocode = [address |-> BlankAddress, result |-> "none",
                      requests |-> 0, cached |-> FALSE]

\* one call of geocode
Geocode ==
    /\ cacheCalls < MaxCacheCalls
    /\ \E a \in Addresses \cup {BlankAddress}, net \in CacheNet,
          n429 \in 0..Max429, jsonCaught \in BOOLEAN :
         LET g == geocode(cache, cache_key_set, a, net, n429, jsonCaught) IN
         /\ cache' = g.cache
         /\ request_count' = request_count + g.requests
         /\ lastGeocode' = [address |-> a, result |-> g.result,
                            requests |-> g.requests,
                            cached |-> (a # BlankAddress
                                        /\ cache[a] # "missing")]
    /\ cacheCalls' = cacheCalls + 1
    /\ UNCHANGED cache_key_set

(***************************************************************************)
(* Part 9 - CPTEDCalculator.calculate_safety_score.                        *)
(* Scores are integers in millionths of a point; maintenance_score and     *)
(* activity_score are in ten-thousandths, so x * 100 points is             *)
(* x * (Point \div 100).  With the inputs below every product and quotient *)
(* of the code is exact, except the exponential, which is tabulated.       *)
(***************************************************************************)
Point == 1000000
Full == 100 * Point

\* GRADE_THRESHOLDS, in millionths of a point
ThresholdA == 60000000
ThresholdB == 50000000
ThresholdC == 40000000
ThresholdD == 30000000

Areas == {1, 2, 4}
FactorSets ==
    [cctv_count : {0, 10}, streetlight_count : {0, 100},
     sexual_offender_count : {0, 5}, police_station_count : {0, 1},
     female_safety_house_count : {0, 5}, delivery_box_count : {0, 10},
     maintenance_score : {5000, 8296}, activity_score : {5000, 9000}]

\* 100 * exp(-density / 10) for density = 5 / area
ExpScore(area) ==
    CASE area = 1 -> 60653066
      [] area = 2 -> 77880078
      [] area = 4 -> 88249690

calculate_natural_surveillance_score(f, area) ==
    LET cctv_score == Min(Full, (f.cctv_count * 10 * Point) \div area)
        streetlight_score == Min(Full, (f.streetlight_count * Point) \div area)
    IN  (cctv_score \div 10) * 5 + (streetlight_score \div 10) * 3 + 4 * Point

calculate_access_control_score(f, area) ==
    IF f.sexual_offender_count = 0 THEN Full ELSE Max(0, ExpScore(area))

calculate_territoriality_score(f, area) ==
    LET police_score ==
            Min(Full, (f.police_station_count * 100 * Point) \div area)
        safety_house_score ==
            Min(Full, (f.female_safety_house_count * 20 * Point) \div area)
    IN  (police_score \div 10) * 4 + (safety_house_score \div 10) * 3
            + 9 * Point

calculate_maintenance_score(f) ==
    LET base_score == f.maintenance_score * (Point \div 100)
        facility_bonus ==
            Min(20 * Point,
                (f.cctv_count + f.streetlight_count) * (Point \div 10))
    IN  Min(Full, base_score + facility_bonus)

calculate_activity_support_score(f, area) ==
    LET delivery_score ==
            Min(Full, (f.delivery_box_count * 10 * Point) \div area)
        area_bonus == Max(0, 20 * Point - area * 5 * Point)
        activity_base_score ==
            f.activity_score * (Point \div 100) + area_bonus
    IN  Min(Full, (delivery_score \div 10) * 3
                      + (activity_base_score \div 10) * 7)

\* get_safety_grade, fixed thresholds (the default mode)
get_safety_grade(score) ==
    IF score >= ThresholdA THEN "A"
    ELSE IF score >= ThresholdB THEN "B"
    ELSE IF score >= ThresholdC THEN "C"
    ELSE IF score >= ThresholdD THEN "D"
    ELSE "E"

\* round(x, 2)
Round2(x) == ((x + 5000) \div 10000) * 10000

calculate_safety_score(f, area) ==
    LET natural_surveillance == calculate_natural_surveillance_score(f, area)
        access_control == calculate_access_control_score(f, area)
        territoriality == calculate_territoriality_score(f, area)
        maintenance == calculate_maintenance_score(f)
        activity_support == calculate_activity_support_score(f, area)
        total_score == (natural_surveillance \div 100) * 35
                       + (access_control \div 100) * 25
                       + (territoriality \div 100) * 20
                       + (maintenance \div 100) * 10
                       + (activity_support \div 100) * 10
        total_facilities == f.cctv_count + f.streetlight_count
                            + f.police_station_count
                            + f.female_safety_house_count
                            + f.delivery_box_count
        facility_density_bonus ==
            Min(15 * Point, (total_facilities * 2 * Point) \div area)
        offender_penalty == Min(10 * Point, f.sexual_offender_count * 2 * Point)
        final_score ==
            Max(0, Min(Full, total_score + facility_density_bonus
                                 - offender_penalty))
    IN  [total_score |-> Round2(final_score),
         grade |-> get_safety_grade(final_score),
         final_score |-> final_score]

NoScore == [total_score |-> 0, grade |-> "none", final_score |-> 0]

ScoreIdle ==
    /\ factors = [cctv_count |-> 0, streetlight_count |-> 0,
                  sexual_offender_count |-> 0, police_station_count |-> 0,
                  female_safety_house_count |-> 0, delivery_box_count |-> 0,
                  maintenance_score |-> 5000, activity_score |-> 5000]
    /\ area_size = 1
    /\ safety_score = NoScore

ScoreInit ==
    /\ factors \in FactorSets
    /\ area_size \in Areas
    /\ safety_score = NoScore

CalculateSafetyScore ==
    /\ safety_score = NoScore
    /\ safety_score' = calculate_safety_score(factors, area_size)
    /\ UNCHANGED <<factors, area_size>>

(***************************************************************************)
(* Part 10 - DongSafetyCalculator.calculate_all_dong_safety.               *)
(* get_all_dong_list returns DISTINCT (district, dong) pairs, so the       *)
(* neighborhoods are 1..n without repetition.                              *)
(***************************************************************************)
Grades == {"A", "B", "C", "D", "E"}
AllDongs == 1 .. MaxDongs
Limits == {0, 1}

\* area_size = 1.5 + (hash % 100) / 100 * 2.0
DongAreas == {a \in Areas : 15 <= 10 * a /\ 10 * a <= 35}

ZeroDistribution == [g \in Grades |-> 0]

\* dong_list[:limit] when a limit is given
slice_dong_list(list, limit) ==
    IF limit # 0 THEN {d \in list : d <= limit} ELSE list

\* variant: the distribution is not updated
count_grade_Skip(dist, g) == dist

\* results['grade_distribution'][safety_score.grade] += 1
count_grade(dist, g) == [dist EXCEPT ![g] = @ + 1]

DongIdle ==
    /\ dong_limit = 0
    /\ dong_list = {}
    /\ dpos = 0
    /\ grade_distribution = ZeroDistribution
    /\ success_count = 0
    /\ error_count = 0
    /\ processed_count = 0
    /\ dong_safety_scores = [d \in AllDongs |-> "none"]
    /\ bucket_of = [d \in AllDongs |-> <<>>]
    /\ dongpc = "start"

DongInit ==
    /\ dong_limit \in Limits
    /\ \E n \in 0 .. MaxDongs : dong_list = 1 .. n
    /\ dpos = 0
    /\ grade_distribution = ZeroDistribution
    /\ success_count = 0
    /\ error_count = 0
    /\ processed_count = 0
    /\ dong_safety_scores \in [AllDongs -> {"none", "E"}]
    /\ bucket_of = [d \in AllDongs |-> <<>>]
    /\ dongpc = "start"

\* the list is cut to the limit; a full run deletes the stored scores first,
\* and a failing DELETE leaves the function with the exception
StartRun ==
    /\ dongpc = "start"
    /\ dong_list' = slice_dong_list(dong_list, dong_limit)
    /\ \E deleted \in BOOLEAN :
         IF dong_limit # 0
         THEN /\ deleted
              /\ dongpc' = "loop"
              /\ UNCHANGED dong_safety_scores
         ELSE IF deleted
              THEN /\ dong_safety_scores' = [d \in AllDongs |-> "none"]
                   /\ dongpc' = "loop"
              ELSE /\ dongpc' = "raised"
                   /\ UNCHANGED dong_safety_scores
    /\ UNCHANGED <<dong_limit, dpos, grade_distribution, success_count,
                   error_count, processed_count, bucket_of>>

\* one iteration of the loop: factors (found or simulated), area, score,
\* upsert; an exception in the iteration is counted and the loop goes on
ScoreDong ==
    /\ dongpc = "loop"
    /\ dpos < Cardinality(dong_list)
    /\ dpos' = dpos + 1
    /\ \E f \in FactorSets, a \in DongAreas, inserted \in BOOLEAN :
         LET grade == calculate_safety_score(f, a).grade
         IN  IF inserted
             THEN /\ dong_safety_scores' =
                        [dong_safety_scores EXCEPT ![dpos + 1] = grade]
                  /\ grade_distribution' =
                        count_grade(grade_distribution, grade)
                  /\ bucket_of' =
                        [bucket_of EXCEPT ![dpos + 1] = Append(@, grade)]
                  /\ success_count' = success_count + 1
                  /\ processed_count' = processed_count + 1
                  /\ UNCHANGED error_count
             ELSE /\ error_count' = error_count + 1
                  /\ UNCHANGED <<dong_safety_scores, grade_distribution,
                                 bucket_of, success_count, processed_count>>
    /\ UNCHANGED <<dong_limit, dong_list, dongpc>>

\* the loop is over and the results are returned
ReturnResults ==
    /\ dongpc = "loop"
    /\ dpos = Cardinality(dong_list)
    /\ dongpc' = "done"
    /\ UNCHANGED <<dong_limit, dong_list, dpos, grade_distribution,
                   success_count, error_count, processed_count,
                   dong_safety_scores, bucket_of>>

(***************************************************************************)
(* Part 11 - SafetyAnalyzer.normalize_dong_name.                           *)
(* A name is a sequence of characters; the characters that matter are a    *)
(* digit, the syllables ga and dong, white space, and any other character. *)
(***************************************************************************)
Digit == "1"
Ga == "ga"
Dong == "dong"
Space == " "
Other == "x"
Chars == {Digit, Ga, Dong, Space, Other}
Names == UNION {[1 .. n -> Chars] : n \in 0 .. MaxNameLen}

\* re.sub(r'\d+', '', s)
remove_digits(s) == SelectSeq(s, LAMBDA c : c # Digit)

\* s.replace('gadong', 'dong'): the non-overlapping occurrences, left to
\* right
RECURSIVE replace_gadong(_)
replace_gadong(s) ==
    IF Len(s) < 2 THEN s
    ELSE IF s[1] = Ga /\ s[2] = Dong
         THEN <<Dong>> \o replace_gadong(SubSeq(s, 3, Len(s)))
         ELSE <<s[1]>> \o replace_gadong(Tail(s))

\* s.strip()
RECURSIVE strip(_)
strip(s) ==
    IF s = <<>> THEN s
    ELSE IF s[1] = Space THEN strip(Tail(s))
    ELSE IF s[Len(s)] = Space THEN strip(SubSeq(s, 1, Len(s) - 1))
    ELSE s

normalize_dong_name(s) ==
    IF s = <<>> THEN <<>>
    ELSE strip(replace_gadong(remove_digits(s)))

NormIdle ==
    /\ dong_name = <<>>
    /\ normalized = <<>>

NormInit ==
    /\ dong_name \in Names
    /\ normalized = <<>>

\* the function is applied to the name, then to its own result
NormalizeDongName ==
    /\ Len(normalized) < 2
    /\ normalized' =
           Append(normalized,
                  normalize_dong_name(IF normalized = <<>> THEN dong_name
                                      ELSE normalized[Len(normalized)]))
    /\ UNCHANGED dong_name

(***************************************************************************)
(* Part 12 - the cache file of the disk-cached KakaoGeocoder.              *)
(* The cache is reduced to its number of entries; an address that is in    *)
(* the cache adds none.                                                    *)
(***************************************************************************)
FlushEvery == 100

\* _save_cache: pickle.dump of the whole cache; an error is logged and
\* swallowed
save_cache(len, disk, writable) == IF writable THEN len ELSE disk

\* the entry geocode adds for an address that was not cached, and the save
\* that follows it: only the branch that stores coordinates tests
\* len(self.cache) % 100
add_entry(len, disk, writable, outcome) ==
    [len |-> len + 1,
     disk |-> IF outcome = "found" /\ (len + 1) % FlushEvery = 0
              THEN save_cache(len + 1, disk, writable)
              ELSE disk]

FlushIdle ==
    /\ cache_len = 0
    /\ disk_len = 0
    /\ disk_writable = TRUE
    /\ lookups = 0
    /\ flushpc = "running"

\* __init__ loads the cache file
FlushInit ==
    /\ cache_len \in {0, FlushEvery - 1}
    /\ disk_len = cache_len
    /\ disk_writable \in BOOLEAN
    /\ lookups = 0
    /\ flushpc = "running"

\* geocode_batch: one geocode call of the loop
BatchGeocode ==
    /\ flushpc = "running"
    /\ lookups < MaxLookups
    /\ lookups' = lookups + 1
    /\ \E outcome \in {"cached", "found", "negative"} :
         IF outcome = "cached"
         THEN /\ cache_len > 0
              /\ UNCHANGED <<cache_len, disk_len>>
         ELSE LET r == add_entry(cache_len, disk_len, disk_writable, outcome)
              IN  /\ cache_len' = r.len
                  /\ disk_len' = r.disk
    /\ UNCHANGED <<disk_writable, flushpc>>

\* geocode_batch: the final _save_cache
BatchFinish ==
    /\ flushpc = "running"
    /\ disk_len' = save_cache(cache_len, disk_len, disk_writable)
    /\ flushpc' = "done"
    /\ UNCHANGED <<cache_len, disk_writable, lookups>>

(***************************************************************************)
(* Part 13 - ODCloudAPIClient.fetch_all_pages.                             *)
(* all_data is reduced to its length; the provider serves its rows in      *)
(* pages of per_page rows.                                                 *)
(***************************************************************************)
NoMaxPages == 0

\* rows of the provider's page p
PageRows(total, pp, p) == Max(0, Min(pp, total - (p - 1) * pp))

\* while page <= max_pages: comparing an int with None raises TypeError
loop_test(p, mp) ==
    IF mp = NoMaxPages THEN "raise"
    ELSE IF p <= mp THEN "body" ELSE "exit"

PagesIdle ==
    /\ max_pages = 1
    /\ per_page = 1
    /\ total_rows = 0
    /\ page_no = 1
    /\ all_data = 0
    /\ fetchFailures = 0
    /\ fetchpc = "loop"

PagesInit ==
    /\ max_pages \in {NoMaxPages} \cup 1 .. MaxPagesArg
    /\ per_page \in 1 .. MaxPerPage
    /\ total_rows \in 0 .. MaxTotalRows
    /\ page_no = 1
    /\ all_data = 0
    /\ fetchFailures = 0
    /\ fetchpc = "loop"

\* the loop test and, when it passes, one turn of the loop
FetchAllPagesTurn ==
    /\ fetchpc = "loop"
    /\ LET t == loop_test(page_no, max_pages)
           n == PageRows(total_rows, per_page, page_no)
       IN  IF t = "raise"
           THEN /\ fetchpc' = "raised"
                /\ UNCHANGED <<page_no, all_data, fetchFailures>>
           ELSE IF t = "exit"
           THEN /\ fetchpc' = "returned"
                /\ UNCHANGED <<page_no, all_data, fetchFailures>>
           ELSE \/ \* fetch_page returned None
                   /\ fetchpc' = "returned"
                   /\ fetchFailures' = fetchFailures + 1
                   /\ UNCHANGED <<page_no, all_data>>
                \/ /\ UNCHANGED fetchFailures
                   /\ IF n = 0
                      THEN /\ fetchpc' = "returned"
                           /\ UNCHANGED <<page_no, all_data>>
                      ELSE /\ all_data' = all_data + n
                           /\ IF n < per_page \/ all_data + n >= total_rows
                              THEN /\ fetchpc' = "returned"
                                   /\ UNCHANGED page_no
                              ELSE /\ fetchpc' = "loop"
                                   /\ page_no' = page_no + 1
    /\ UNCHANGED <<max_pages, per_page, total_rows>>

(***************************************************************************)
(* Part 14 - UltraFastCompletion: process_in_chunks and                    *)
(* process_chunk_geocoding.  Every row starts without a neighborhood; the  *)
(* rows are ordered by id.                                                 *)
(***************************************************************************)
max_workers == 3

RowIds == 1 .. NumCctvRows
ChunkSizes == {2, 4}

\* WHERE (dong IS NULL OR dong = '')
MissingDong(rows) == {i \in RowIds : ~rows[i].dong}

\* ... AND latitude IS NOT NULL AND longitude IS NOT NULL
Filtered(rows) == {i \in MissingDong(rows) : rows[i].coords}

RECURSIVE Ordered(_)
\* ORDER BY district, id
Ordered(S) ==
    IF S = {} THEN <<>>
    ELSE LET m == CHOOSE x \in S : \A y \in S : x <= y
         IN  <<m>> \o Ordered(S \ {m})

\* LIMIT n OFFSET off
LimitOffset(q, n, off) == SubSeq(q, off + 1, Min(Len(q), off + n))

\* the chunk query, run on the table as it is now
chunk_query(rows, n, off) == LimitOffset(Ordered(Filtered(rows)), n, off)

Running == {i \in RowIds : task[i] = "running"}

\* variant: the pool starts every submitted task at once
can_start_Unbounded(running) == TRUE

\* ThreadPoolExecutor(max_workers=3)
can_start(running) == running < max_workers

FillIdle ==
    /\ cctv_rows = [i \in RowIds |-> [dong |-> FALSE, coords |-> FALSE]]
    /\ chunk_size = 2
    /\ remaining = 0
    /\ fill_offset = 0
    /\ chunk_data = <<>>
    /\ task = [i \in RowIds |-> "none"]
    /\ submitted = {}
    /\ consumed = 0
    /\ named = 0
    /\ writes = 0
    /\ fillpc = "start"

FillInit ==
    /\ cctv_rows \in [RowIds -> [dong : {FALSE}, coords : BOOLEAN]]
    /\ chunk_size \in ChunkSizes
    /\ remaining = 0
    /\ fill_offset = 0
    /\ chunk_data = <<>>
    /\ task = [i \in RowIds |-> "none"]
    /\ submitted = {}
    /\ consumed = 0
    /\ named = 0
    /\ writes = 0
    /\ fillpc = "start"

\* process_in_chunks: the count query and the early return
CountRemaining ==
    /\ fillpc = "start"
    /\ remaining' = Cardinality(MissingDong(cctv_rows))
    /\ fillpc' = IF remaining' = 0 THEN "done" ELSE "loop"
    /\ UNCHANGED <<cctv_rows, chunk_size, fill_offset, chunk_data, task,
                   submitted, consumed, named, writes>>

\* process_in_chunks: the loop test, the chunk query, and the submission of
\* every record of the chunk to the pool
FetchChunk ==
    /\ fillpc = "loop"
    /\ IF fill_offset >= remaining
       THEN /\ fillpc' = "done"
            /\ UNCHANGED <<chunk_data, task, submitted>>
       ELSE LET actual_chunk_size ==
                    Min(chunk_size, remaining - fill_offset)
                c == chunk_query(cctv_rows, actual_chunk_size, fill_offset)
            IN  IF c = <<>>
                THEN /\ fillpc' = "done"
                     /\ UNCHANGED <<chunk_data, task, submitted>>
                ELSE /\ chunk_data' = c
                     /\ task' = [i \in RowIds |->
                                   IF \E j \in 1..Len(c) : c[j] = i
                                   THEN "queued" ELSE "none"]
                     /\ submitted' =
                            submitted \cup {c[j] : j \in 1..Len(c)}
                     /\ fillpc' = "pool"
    /\ UNCHANGED <<cctv_rows, chunk_size, remaining, fill_offset, consumed,
                   named, writes>>

\* a worker of the pool takes the oldest queued task
StartTask ==
    /\ fillpc = "pool"
    /\ can_start(Cardinality(Running))
    /\ \E j \in 1..Len(chunk_data) :
         /\ task[chunk_data[j]] = "queued"
         /\ \A h \in 1..(j - 1) : task[chunk_data[h]] # "queued"
         /\ task' = [task EXCEPT ![chunk_data[j]] = "running"]
    /\ UNCHANGED <<cctv_rows, chunk_size, remaining, fill_offset, chunk_data,
                   submitted, consumed, named, writes, fillpc>>

\* geocode_single_record returns a neighborhood name or None
CompleteTask ==
    /\ fillpc = "pool"
    /\ \E i \in Running, r \in {"name", "absent"} :
         task' = [task EXCEPT ![i] = r]
    /\ UNCHANGED <<cctv_rows, chunk_size, remaining, fill_offset, chunk_data,
                   submitted, consumed, named, writes, fillpc>>

\* the as_completed loop takes a finished future; a name is written with
\* one UPDATE, whose failure is swallowed
ConsumeResult ==
    /\ fillpc = "pool"
    /\ \E i \in RowIds :
         /\ task[i] \in {"name", "absent"}
         /\ task' = [task EXCEPT ![i] = "consumed"]
         /\ consumed' = consumed + 1
         /\ IF task[i] = "name"
            THEN /\ named' = named + 1
                 /\ writes' = writes + 1
                 /\ \E ok \in BOOLEAN :
                      cctv_rows' = IF ok
                                   THEN [cctv_rows EXCEPT ![i].dong = TRUE]
                                   ELSE cctv_rows
            ELSE UNCHANGED <<named, writes, cctv_rows>>
    /\ UNCHANGED <<chunk_size, remaining, fill_offset, chunk_data, submitted,
                   fillpc>>

\* every future of the chunk was taken: the offset moves on
ChunkDone ==
    /\ fillpc = "pool"
    /\ \A j \in 1..Len(chunk_data) : task[chunk_data[j]] = "consumed"
    /\ fill_offset' = fill_offset + Min(chunk_size, remaining - fill_offset)
    /\ chunk_data' = <<>>
    /\ task' = [i \in RowIds |-> "none"]
    /\ fillpc' = "loop"
    /\ UNCHANGED <<cctv_rows, chunk_size, remaining, submitted, consumed,
                   named, writes>>

\* the late parts at rest
LateIdle == FlushIdle /\ PagesIdle /\ FillIdle

\* the utility parts at rest
UtilIdle ==
    /\ RecIdle /\ HttpIdle /\ GeoIdle /\ CacheIdle /\ ScoreIdle /\ DongIdle
    /\ NormIdle /\ LateIdle


(***************************************************************************)
(* Specifications                                                          *)
(***************************************************************************)
Init == SchedInit /\ DbIdle /\ ConnIdle /\ PipeIdle /\ UtilIdle
Next ==
    \/ AdvanceDay /\ UNCHANGED <<dbVars, connVars, pipeVars, utilVars>>
    \/ StartScheduler /\ UNCHANGED <<dbVars, connVars, pipeVars, utilVars>>
    \/ RunPending /\ UNCHANGED <<dbVars, connVars, pipeVars, utilVars>>
    \/ CheckDailyLimit /\ UNCHANGED <<dbVars, connVars, pipeVars, utilVars>>
    \/ ProbeProgress /\ UNCHANGED <<dbVars, connVars, pipeVars, utilVars>>
    \/ FetchPageOffender /\ UNCHANGED <<dbVars, connVars, pipeVars, utilVars>>
    \/ FetchPageStreetlight /\ UNCHANGED <<dbVars, connVars, pipeVars, utilVars>>
    \/ SaveStreetlight /\ UNCHANGED <<dbVars, connVars, pipeVars, utilVars>>
    \/ UpdateStats /\ UNCHANGED <<dbVars, connVars, pipeVars, utilVars>>
    \/ LoopExit /\ UNCHANGED <<dbVars, connVars, pipeVars, utilVars>>
    \/ Interrupt /\ UNCHANGED <<dbVars, connVars, pipeVars, utilVars>>
Spec == Init /\ [][Next]_vars

SchedIdle ==
    /\ sched = "offender"
    /\ prov = [total |-> SmallTotal, pageRows |-> PageSize, good |-> TRUE]
    /\ today = 0
    /\ daily_used = 0
    /\ last_reset_date = 0
    /\ is_running = FALSE
    /\ jobs = 0
    /\ phase = "new"
    /\ step = "none"
    /\ upstream = "up"
    /\ loc = NoLoc
    /\ stored = [p \in 1..NPages |-> 0]
    /\ passesToday = 0
    /\ downs = 0
    /\ apiCallsToday = 0
    /\ obs = NoObs

\* the scheduler's variables except hasUnique, which the save operations read
schedFrame == <<sched, prov, today, daily_used, last_reset_date,
                is_running, jobs, phase, step, upstream, loc, stored,
                passesToday, downs, apiCallsToday, obs>>

DbSpecInit == SchedIdle /\ DbInit /\ ConnIdle /\ PipeIdle /\ UtilIdle
DbNext ==
    \/ SaveUpsert /\ UNCHANGED <<schedFrame, hasUnique, connVars, pipeVars, utilVars>>
    \/ SaveAppendStreetlight
         /\ UNCHANGED <<schedFrame, hasUnique, connVars, pipeVars, utilVars>>
    \/ SaveReplaceDelete
         /\ UNCHANGED <<schedFrame, hasUnique, connVars, pipeVars, utilVars>>
    \/ SaveReplaceInsert
         /\ UNCHANGED <<schedFrame, hasUnique, connVars, pipeVars, utilVars>>
SpecDb == DbSpecInit /\ [][DbNext]_vars

OrderSpecInit ==
    /\ DbSpecInit
    /\ dbCtrl \in {"police_station", "female_safety_house", "sexual_offender"}
OrderNext ==
    SaveReordered
        /\ UNCHANGED <<schedFrame, hasUnique, connVars, pipeVars, utilVars>>
SpecOrder == OrderSpecInit /\ [][OrderNext]_vars

ConnSpecInit ==
    SchedIdle /\ hasUnique = TRUE /\ DbIdle /\ ConnInit /\ PipeIdle /\ UtilIdle
ConnNext ==
    \E s \in Scopes :
        \/ EnterScope(s) /\ UNCHANGED <<schedVars, dbVars, pipeVars, utilVars>>
        \/ EnterScopeFails(s) /\ UNCHANGED <<schedVars, dbVars, pipeVars, utilVars>>
        \/ BodyStatement(s) /\ UNCHANGED <<schedVars, dbVars, pipeVars, utilVars>>
        \/ ExitScopeNormal(s) /\ UNCHANGED <<schedVars, dbVars, pipeVars, utilVars>>
        \/ ExitScopeRaise(s) /\ UNCHANGED <<schedVars, dbVars, pipeVars, utilVars>>
SpecConn == ConnSpecInit /\ [][ConnNext]_vars

PipeSpecInit ==
    SchedIdle /\ hasUnique = TRUE /\ DbIdle /\ ConnIdle /\ PipeInit /\ UtilIdle
PipeNext ==
    \/ CheckPrerequisites /\ UNCHANGED <<schedVars, dbVars, connVars, utilVars>>
    \/ InitializeDatabase /\ UNCHANGED <<schedVars, dbVars, connVars, utilVars>>
    \/ CollectOne /\ UNCHANGED <<schedVars, dbVars, connVars, utilVars>>
    \/ ReportAndReturn /\ UNCHANGED <<schedVars, dbVars, connVars, utilVars>>
    \/ PipeInterrupt /\ UNCHANGED <<schedVars, dbVars, connVars, utilVars>>
SpecPipe == PipeSpecInit /\ [][PipeNext]_vars

\* the four program parts above, at rest
CoreIdle ==
    SchedIdle /\ hasUnique = TRUE /\ DbIdle /\ ConnIdle /\ PipeIdle
coreVars == <<schedVars, dbVars, connVars, pipeVars>>

RecSpecInit == CoreIdle /\ RecInit /\ HttpIdle /\ GeoIdle /\ CacheIdle
    /\ ScoreIdle /\ DongIdle /\ NormIdle /\ LateIdle
recRest == <<coreVars, httpVars, geoVars, cacheVars, scoreVars, dongVars, normVars,
      lateVars>>
RecNext ==
    \/ ProcessRecord /\ UNCHANGED recRest
    \/ SaveProcessed /\ UNCHANGED recRest
SpecRec == RecSpecInit /\ [][RecNext]_vars

HttpSpecInit == CoreIdle /\ RecIdle /\ HttpInit /\ GeoIdle /\ CacheIdle
    /\ ScoreIdle /\ DongIdle /\ NormIdle /\ LateIdle
httpRest == <<coreVars, recVars, geoVars, cacheVars, scoreVars, dongVars, normVars,
      lateVars>>
HttpNext ==
    \/ HttpAttempt /\ UNCHANGED httpRest
    \/ HttpNextRequest /\ UNCHANGED httpRest
SpecHttp == HttpSpecInit /\ [][HttpNext]_vars

GeoSpecInit == CoreIdle /\ RecIdle /\ HttpIdle /\ GeoInit /\ CacheIdle
    /\ ScoreIdle /\ DongIdle /\ NormIdle /\ LateIdle
geoRest == <<coreVars, recVars, httpVars, cacheVars, scoreVars, dongVars, normVars,
      lateVars>>
GeoNext == CoordinateToAddress /\ UNCHANGED geoRest
SpecGeo == GeoSpecInit /\ [][GeoNext]_vars

CacheSpecInit == CoreIdle /\ RecIdle /\ HttpIdle /\ GeoIdle /\ CacheInit
    /\ ScoreIdle /\ DongIdle /\ NormIdle /\ LateIdle
cacheRest == <<coreVars, recVars, httpVars, geoVars, scoreVars, dongVars, normVars,
      lateVars>>
CacheNext == Geocode /\ UNCHANGED cacheRest
SpecCache == CacheSpecInit /\ [][CacheNext]_vars

ScoreSpecInit ==
    CoreIdle /\ RecIdle /\ HttpIdle /\ GeoIdle /\ CacheIdle /\ ScoreInit
    /\ DongIdle /\ NormIdle /\ LateIdle
scoreRest == <<coreVars, recVars, httpVars, geoVars, cacheVars, dongVars, normVars,
      lateVars>>
ScoreNext == CalculateSafetyScore /\ UNCHANGED scoreRest
SpecScore == ScoreSpecInit /\ [][ScoreNext]_vars

DongSpecInit ==
    CoreIdle /\ RecIdle /\ HttpIdle /\ GeoIdle /\ CacheIdle /\ ScoreIdle
    /\ DongInit /\ NormIdle /\ LateIdle
dongRest == <<coreVars, recVars, httpVars, geoVars, cacheVars, scoreVars, normVars,
      lateVars>>
DongNext ==
    \/ StartRun /\ UNCHANGED dongRest
    \/ ScoreDong /\ UNCHANGED dongRest
    \/ ReturnResults /\ UNCHANGED dongRest
SpecDong == DongSpecInit /\ [][DongNext]_vars

NormSpecInit ==
    CoreIdle /\ RecIdle /\ HttpIdle /\ GeoIdle /\ CacheIdle /\ ScoreIdle
    /\ DongIdle /\ NormInit /\ LateIdle
normRest ==
    <<coreVars, recVars, httpVars, geoVars, cacheVars, scoreVars, dongVars,
      lateVars>>
NormNext == NormalizeDongName /\ UNCHANGED normRest
SpecNorm == NormSpecInit /\ [][NormNext]_vars

\* the core and the utility parts other than the late ones, at rest
EarlyIdle ==
    /\ CoreIdle /\ RecIdle /\ HttpIdle /\ GeoIdle /\ CacheIdle /\ ScoreIdle
    /\ DongIdle /\ NormIdle
earlyVars ==
    <<coreVars, recVars, httpVars, geoVars, cacheVars, scoreVars, dongVars,
      normVars>>

FlushSpecInit == EarlyIdle /\ FlushInit /\ PagesIdle /\ FillIdle
flushRest == <<earlyVars, pagesVars, fillVars>>
FlushNext ==
    \/ BatchGeocode /\ UNCHANGED flushRest
    \/ BatchFinish /\ UNCHANGED flushRest
SpecFlush == FlushSpecInit /\ [][FlushNext]_vars

PagesSpecInit == EarlyIdle /\ FlushIdle /\ PagesInit /\ FillIdle
pagesRest == <<earlyVars, flushVars, fillVars>>
PagesNext == FetchAllPagesTurn /\ UNCHANGED pagesRest
SpecPages == PagesSpecInit /\ [][PagesNext]_vars

FillSpecInit == EarlyIdle /\ FlushIdle /\ PagesIdle /\ FillInit
fillRest == <<earlyVars, flushVars, pagesVars>>
FillNext ==
    \/ CountRemaining /\ UNCHANGED fillRest
    \/ FetchChunk /\ UNCHANGED fillRest
    \/ StartTask /\ UNCHANGED fillRest
    \/ CompleteTask /\ UNCHANGED fillRest
    \/ ConsumeResult /\ UNCHANGED fillRest
    \/ ChunkDone /\ UNCHANGED fillRest
SpecFill == FillSpecInit /\ [][FillNext]_vars

(***************************************************************************)
(* Claims about the schedulers                                             *)
(***************************************************************************)

\* C1: a pass invoked while daily_used >= the ceiling, on a date that is not
\* later than last_reset_date, sends no upstream request (no progress probe,
\* no controller fetch), logs the skip and leaves daily_used as it was.
C1_QuotaBlocksPass ==
    obs.preBlocked =>
        /\ obs.passCalls = 0
        /\ obs.skipLogged
        /\ ~obs.ctrlInvoked
        /\ daily_used = obs.usedBefore
        /\ step \in {"none", "check"}

C1_Witness == obs.preBlocked /\ obs.skipLogged /\ step = "none"

\* C2: the upstream requests sent by the passes of one calendar day never
\* exceed the scheduler's daily ceiling.
C2_CallsWithinCeiling == apiCallsToday <= daily_limit

\* C3: a pass that passed the quota check and observed a persisted count >=
\* the provider's total stops the scheduler: is_running is false, the pending
\* schedule is empty, the controller was not invoked on that pass and no
\* later pass begins.
C3_CompletionStops ==
    (loc.probed /\ loc.current_count >= loc.total_count) =>
        /\ ~is_running
        /\ jobs = 0
        /\ ~obs.ctrlInvoked
        /\ step = "none"
        /\ obs.completedAt = obs.passNo

C3_Witness ==
    /\ loc.probed
    /\ loc.current_count >= loc.total_count
    /\ loc.total_count > 0
    /\ obs.passNo > 1
    /\ phase = "returned"

\* C4: once an interrupt has been delivered after start_scheduler set
\* is_running, start_scheduler is left with the scheduler stopped: is_running
\* false, the pending schedule cleared and the final statistics logged.
C4_InterruptStopsCleanly ==
    (obs.interrupted /\ phase \in {"returned", "aborted"}) =>
        /\ ~is_running
        /\ jobs = 0
        /\ obs.stopLogs = 1

\* C5: a quota check on a date later than last_reset_date sets daily_used to
\* 0 and last_reset_date to the date before it compares, so the pass is not
\* blocked by the previous day's count; on the same date the counter is never
\* reset (daily_used never decreases).
C5_ResetOnNewDate ==
    [][ /\ (obs'.passNo = obs.passNo + 1) =>
             IF today > last_reset_date
             THEN daily_used' = 0 /\ last_reset_date' = today /\ step' = "probe"
             ELSE daily_used' = daily_used /\ last_reset_date' = last_reset_date
        /\ (daily_used' < daily_used) =>
             (today > last_reset_date /\ obs'.passNo = obs.passNo + 1) ]_vars

C5_Witness == obs.resetFrom >= daily_limit /\ step = "probe"

(***************************************************************************)
(* Claims about the save operations                                        *)
(***************************************************************************)
RECURSIVE LastVal(_, _)
\* the value the last record of data with key k carries (0 if none)
LastVal(data, k) ==
    IF data = <<>> THEN 0
    ELSE IF data[Len(data)].key = k THEN data[Len(data)].val
    ELSE LastVal(SubSeq(data, 1, Len(data) - 1), k)

TwiceDone == runs = 2 /\ allOk /\ dbpc = "idle"

\* C6: after an upsert-mode save has run twice with the same input the row
\* count equals the count after the first run, no natural key of the input
\* occurs in two rows, and the mutable columns of every input key hold the
\* values of the (second) run.
C6_UpsertIdempotent ==
    (dbCtrl \in UpsertCtrls /\ TwiceDone) =>
        /\ Len(table) = Len(after1)
        /\ \A i \in 1..Len(input) :
             /\ Cardinality({ j \in 1..Len(table) :
                                table[j].key = input[i].key }) = 1
             /\ \A j \in 1..Len(table) :
                  table[j].key = input[i].key =>
                      table[j].val = LastVal(input, input[i].key)

\* C7: after a full-replace save has run twice with the same input the table
\* holds exactly the rows it held after the first run, whatever it held
\* before the first.
C7_ReplaceIdempotent ==
    (dbCtrl \in ReplaceCtrls /\ TwiceDone) => table = after1

C7_Witness ==
    /\ dbCtrl \in ReplaceCtrls
    /\ TwiceDone
    /\ input # <<>>
    /\ table = input

Aborted == exitPath \in {"prereq_failed", "schema_failed", "exception"}

\* the outcome of the last attempt made for data type t
LastOutcome(t) ==
    LET I == { i \in 1..Len(attempts) : attempts[i].type = t }
    IN  IF I = {} THEN "not_run"
        ELSE attempts[CHOOSE i \in I : \A j \in I : j <= i].outcome

\* C9 as stated: when run has returned, true means every selected entry was
\* run by a controller that reported success, and any entry that failed or
\* was not run, or an abort, means false.
C9_TrueOnlyIfAllSelectedSucceeded ==
    (ppc = "done" /\ ret \in {"true", "false"}) =>
        (ret = "true" <=>
            /\ ~Aborted
            /\ Len(attempts) = Len(Selected)
            /\ \A i \in 1..Len(attempts) : attempts[i].outcome = "success")

\* C9 amended: run returns true exactly when it did not abort and, for every
\* selected data type that has a registered controller, the last run of that
\* controller reported success; selected names without a registered
\* controller are skipped and do not count.
C9_TrueIffRegisteredSelectedSucceeded ==
    (ppc = "done" /\ ret \in {"true", "false"}) =>
        (ret = "true" <=>
            /\ ~Aborted
            /\ \A i \in 1..Len(Selected) :
                 Selected[i] \in Registered =>
                     LastOutcome(Selected[i]) = "success")

C9_Witness ==
    /\ ppc = "done"
    /\ ret = "true"
    /\ Len(Selected) = 2
    /\ \E i \in 1..2 : Selected[i] \notin Registered
    /\ \E i \in 1..2 : Selected[i] \in Registered

\* C10: the pool is open while run executes and closed by exactly one
\* close_all_connections call once run has ended, whichever way it ended.
C10_PoolClosedAtEnd ==
    /\ (ppc = "done") => (connection_pool = "closed" /\ closeCalls = 1)
    /\ (ppc \in {"prereq", "initdb", "collect"}) =>
           (connection_pool = "open" /\ closeCalls = 0)

C10_Witness ==
    /\ ppc = "done"
    /\ exitPath = "controller_failed"
    /\ connection_pool = "closed"

\* C11: when a controller's run ends in a failure result or in an exception,
\* that failure is stored as the controller's result and the loop goes on to
\* the next selected entry; run_data_collection hands its results over only
\* after every selected entry with a registered controller has been run.
C11_FailureRecordedAndLoopContinues ==
    [][ /\ (ppc = "collect" /\ attempts' # attempts) =>
            LET a == attempts'[Len(attempts')] IN
            (a.outcome \in {"failure", "exception"}) =>
                /\ a.type \in DOMAIN results'
                /\ results'[a.type] = FALSE
                /\ ppc' = "collect"
                /\ idx' = idx + 1
        /\ (ppc = "collect" /\ ppc' = "done" /\ exitPath' # "interrupt") =>
            /\ Len(attempts) = Len(Selected)
            /\ \A i \in 1..Len(Selected) :
                 Selected[i] \in Registered => attempts[i].outcome # "skipped"
      ]_vars

C11_Witness ==
    /\ ppc = "done"
    /\ exitPath \in {"success", "controller_failed"}
    /\ Len(attempts) = 2
    /\ attempts[1].outcome \in {"failure", "exception"}
    /\ attempts[2].outcome \in {"success", "failure", "exception"}

(***************************************************************************)
(* Claims about record processing                                          *)
(***************************************************************************)
Parsed(v) == v.kind = "num"

\* the controller's mandatory field is missing from raw record r
MissingMandatory(c, r) ==
    CASE c = "cctv" -> r.address.kind = "empty"
      [] c = "delivery_box" -> r.name.kind = "empty" /\ r.address.kind = "empty"
      [] c = "streetlight" ->
           r.latitude.kind = "empty" \/ r.longitude.kind = "empty"

\* a number of raw record r is present but cannot be parsed
UnparseableNumber(c, r) ==
    \/ r.latitude.kind = "text"
    \/ r.longitude.kind = "text"
    \/ c = "cctv" /\ r.count.kind = "text"

\* both coordinates parse and lie outside the bounds the controller checks
OutOfBounds(c, r) ==
    /\ Parsed(r.latitude) /\ Parsed(r.longitude)
    /\ IF c = "streetlight"
       THEN ~(KoreaMinLat <= r.latitude.val /\ r.latitude.val <= KoreaMaxLat
              /\ KoreaMinLon <= r.longitude.val
              /\ r.longitude.val <= KoreaMaxLon)
       ELSE ~validate_coordinates(r.latitude.val, r.longitude.val)

FailsValidation(c, r) ==
    MissingMandatory(c, r) \/ UnparseableNumber(c, r) \/ OutOfBounds(c, r)

PersistedSources == { persisted[j].src : j \in 1..Len(persisted) }

Dropped(c, r) ==
    CASE c = "cctv" -> r.address.kind = "empty"
      [] c = "delivery_box" -> r.name.kind = "empty" /\ r.address.kind = "empty"
      [] c = "streetlight" ->
           \/ ~Parsed(r.latitude) \/ ~Parsed(r.longitude)
           \/ r.latitude.val = 0 \/ r.longitude.val = 0
           \/ OutOfBounds(c, r)

C13_OtherStatusEndsRequest ==
    \A i \in 1..Len(statuses) :
        statuses[i] = "other_status" =>
            (i = Len(statuses) /\ httpResult = "absent")

\* C13 amended: a response whose status is neither 200 nor 429 is retried
\* like a transport error; the request ends as a failure only when a 200
\* response cannot be decoded or when max_retries attempts have been made.
C13_OtherStatusRetried ==
    /\ Len(statuses) <= max_retries
    /\ \A i \in 1..Len(statuses) :
         (statuses[i] = "other_status" /\ i < max_retries) =>
             (i < Len(statuses) \/ httpResult = "pending")
    /\ (httpResult = "absent") =>
         \/ statuses[Len(statuses)] = "200_invalid"
         \/ Len(statuses) = max_retries
                /\ statuses[Len(statuses)] \notin {"200_json", "200_invalid"}
    /\ (httpResult = "data") => statuses[Len(statuses)] = "200_json"
    /\ (httpResult = "pending") => Len(statuses) < max_retries

C13_Witness ==
    /\ Len(statuses) = 3
    /\ statuses[1] = "other_status"
    /\ statuses[2] = "other_status"
    /\ statuses[3] = "other_status"
    /\ httpResult = "absent"

(***************************************************************************)
(* Claims about the geocoders                                              *)
(***************************************************************************)
\* C14: a geocoding call that fails, for whatever reason, returns the absent
\* result and never raises.
C14_GeocodingNeverRaises == geoLast.end # "raised"

\* C15 as stated: the requests sent in the process lifetime never exceed the
\* ceiling, and every request sent is counted against it.
C15_LifetimeCallsWithinCeiling ==
    /\ netCalls <= GeoDailyLimit
    /\ netCalls = daily_request_count

\* C15 amended: the counter holds the requests that got a success status
\* (requests that fail are sent but not counted), it never exceeds the
\* ceiling, and a call made with the counter at the ceiling returns absent
\* without sending a request.
C15_CountedCallsWithinCeiling ==
    [][ /\ daily_request_count' <= GeoDailyLimit
        /\ netCalls' = daily_request_count' + failedCalls'
        /\ (geoCalls' = geoCalls + 1
                /\ daily_request_count >= GeoDailyLimit) =>
               /\ netCalls' = netCalls
               /\ daily_request_count' = daily_request_count
               /\ geoLast'.end = "absent"
               /\ ~geoLast'.sent
               /\ get_remaining_requests(daily_request_count') = 0
      ]_vars

C15_Witness ==
    /\ daily_request_count = GeoDailyLimit
    /\ failedCalls > 0
    /\ netCalls > GeoDailyLimit
    /\ geoLast = [end |-> "absent", sent |-> FALSE]

\* C16: a geocode call for an address that is in the cache sends no request
\* and returns the cached value; a call that returns for an address that
\* was not in the cache leaves its outcome, coordinates or negative, in the
\* cache; an entry of the cache is never dropped or changed.
C16_CacheAnswersRepeatedLookups ==
    [][ (cacheCalls' = cacheCalls + 1) =>
          LET a == lastGeocode'.address IN
          /\ \A b \in Addresses :
               cache[b] # "missing" => cache'[b] = cache[b]
          /\ (a # BlankAddress /\ cache[a] # "missing") =>
               /\ request_count' = request_count
               /\ lastGeocode'.result = cache[a]
          /\ (a # BlankAddress /\ lastGeocode'.result # "raised") =>
               /\ cache'[a] # "missing"
               /\ cache'[a] = lastGeocode'.result
      ]_vars

C16_Witness ==
    /\ request_count > 0
    /\ lastGeocode.address # BlankAddress
    /\ lastGeocode.cached
    /\ lastGeocode.result = "negative"
    /\ lastGeocode.requests = 0
    /\ cacheCalls = 2

(***************************************************************************)
(* Claims about the scoring engine                                         *)
(***************************************************************************)
\* C18: the grade of the returned SafetyScore is the grade the threshold
\* table assigns to the returned total score, and that score lies in
\* [0, 100].
C18_GradeMatchesReturnedScore ==
    (safety_score # NoScore) =>
        /\ safety_score.grade = get_safety_grade(safety_score.total_score)
        /\ 0 <= safety_score.total_score
        /\ safety_score.total_score <= Full

(***************************************************************************)
(* Claims about the dong-level calculator                                  *)
(***************************************************************************)
\* a full (unlimited) run has returned its results
FullRunDone == dongpc = "done" /\ dong_limit = 0

\* grade_distribution summed over the grades
DistributionTotal ==
    grade_distribution["A"] + grade_distribution["B"]
        + grade_distribution["C"] + grade_distribution["D"]
        + grade_distribution["E"]

\* C17: after a full run every discovered neighborhood is counted in
\* exactly one grade bucket, and the per-grade counts sum to the number of
\* successfully scored neighborhoods.
C17_EveryDongInOneBucket ==
    FullRunDone =>
        /\ \A d \in dong_list : Len(bucket_of[d]) = 1
        /\ DistributionTotal = success_count

\* C17 (amended): after a full run every neighborhood scored and stored
\* without error is counted in exactly one bucket, the one of its stored
\* grade; a neighborhood whose iteration raised is counted in none; each
\* bucket holds exactly the neighborhoods stored with its grade; and the
\* per-grade counts sum to the successes, the discovered neighborhoods
\* minus the errors.
C17_EveryStoredDongInOneBucket ==
    FullRunDone =>
        /\ \A d \in dong_list :
             IF dong_safety_scores[d] # "none"
             THEN bucket_of[d] = <<dong_safety_scores[d]>>
             ELSE bucket_of[d] = <<>>
        /\ \A g \in Grades :
             grade_distribution[g] =
                 Cardinality({d \in dong_list : dong_safety_scores[d] = g})
        /\ DistributionTotal = success_count
        /\ success_count = Cardinality(dong_list) - error_count
        /\ processed_count = success_count

\* a full run over more than one neighborhood ended with a stored score
\* and an error
C17_Witness ==
    /\ FullRunDone
    /\ success_count >= 1
    /\ error_count >= 1

(***************************************************************************)
(* Claims about name normalisation                                         *)
(***************************************************************************)
\* C19: normalize_dong_name is idempotent: applying it to its own result
\* gives that result again.
C19_NormalizeIdempotent ==
    (Len(normalized) = 2) => (normalized[2] = normalized[1])

(***************************************************************************)
(* Claims about the completion test of the schedulers                      *)
(***************************************************************************)
\* C20: a scheduler declares collection complete and stops only when the
\* provider's total was actually obtained and the persisted row count has
\* reached it; a pass whose progress probe failed never stops the scheduler
\* as completed.
C20_CompletesOnlyOnObtainedTotal ==
    (obs.passNo > 0 /\ obs.completedAt = obs.passNo) =>
        /\ upstream = "up"
        /\ loc.total_count = prov.total
        /\ loc.current_count >= prov.total

(***************************************************************************)
(* Claims about the page a pass resumes from                               *)
(***************************************************************************)
\* a pass has computed its start page from the probed row count and the
\* controller has not yet requested a page
PageComputed == loc.probed /\ step = "fetch" /\ loc.total_api_calls = 0

PersistedContiguously ==
    /\ prov.pageRows = PageSize
    /\ \A p \in 1 .. NPages :
         stored[p] > 0 =>
             /\ stored[p] <= PageRowsAt(p)
             /\ \A q \in 1 .. p - 1 : stored[q] = PageRowsAt(q)

\* the provider pages that still hold an unpersisted record
UnpersistedPages == {p \in 1 .. NPages : stored[p] < PageRowsAt(p)}

\* C21: with rows persisted contiguously from provider page 1 at 1000 rows
\* per page, the start page a pass hands to its controller is never greater
\* than the lowest-numbered provider page that still holds an unpersisted
\* record (from an empty table the first pass requests page 1).
C21_StartPageNotPastUnpersisted ==
    (PageComputed /\ PersistedContiguously) =>
        \A p \in UnpersistedPages : loc.page <= p

(***************************************************************************)
(* Claims about the full-replace saves                                     *)
(***************************************************************************)
\* a full-replace save has committed its DELETE and not yet run its INSERT
MidReplace == dbCtrl \in ReplaceCtrls /\ dbpc = "deleted"

\* C23: while a full-replace save with a non-empty input is in progress, a
\* concurrent reader can observe the destination table with zero rows: the
\* delete is visible (committed) before any replacement row is.
C23_ReaderSeesEmptyTable ==
    MidReplace => (input # <<>> /\ table = <<>>)

\* the second save is in progress on the non-empty table the first one left
C23_Witness ==
    /\ MidReplace
    /\ runs = 1
    /\ after1 # <<>>
    /\ table = <<>>

\* the first full-replace save succeeded and left rows (after1), the second
\* one failed in its insert step
SecondReplaceFailed ==
    /\ dbCtrl \in ReplaceCtrls
    /\ runs = 2
    /\ dbpc = "idle"
    /\ ~allOk
    /\ after1 # <<>>

\* C24: when a full-replace save fails in its insert step, the destination
\* table still holds the rows it held before the call.
C24_FailedReplaceKeepsRows ==
    SecondReplaceFailed => table = after1

(***************************************************************************)
(* Claims about the order of upserted records                              *)
(***************************************************************************)
KeysOf(t) == {t[i].key : i \in 1..Len(t)}
ValsOf(t, k) == {t[i].val : i \in {j \in 1..Len(t) : t[j].key = k}}

\* the same set of natural keys, one row per key, the same values per key
SameContent(t, u) ==
    /\ Len(t) = Len(u)
    /\ KeysOf(t) = KeysOf(u)
    /\ \A k \in KeysOf(t) : ValsOf(t, k) = ValsOf(u, k)

\* no two records of the collection share a key and differ in their values
NoConflict(data) ==
    \A i, j \in 1..Len(data) :
        data[i].key = data[j].key => data[i].val = data[j].val

\* C25: saving the same collection of records in any order, in one call or
\* split across calls, yields the same final table content.
C25_OrderIndependent ==
    (runs = 1) => SameContent(table, after1)

\* C25 (amended): saving the same collection in any order yields the same
\* set of natural keys with one row per key; the mutable columns of a key
\* hold the values of one of the collection's records with that key (the one
\* saved last), so the content is the same in every order when the records
\* that share a key agree in their values.
C25_OrderIndependentWithoutConflicts ==
    (runs = 1) =>
        /\ Len(table) = Len(after1)
        /\ KeysOf(table) = KeysOf(after1)
        /\ \A i \in 1..Len(input) :
             /\ Cardinality({j \in 1..Len(table) :
                                table[j].key = input[i].key}) = 1
             /\ ValsOf(table, input[i].key) \subseteq
                    ValsOf(input, input[i].key)
        /\ NoConflict(input) => SameContent(table, after1)

\* two records with different keys were saved in the other order
C25_Witness ==
    /\ runs = 1
    /\ Len(input) = 2
    /\ input[1].key # input[2].key
    /\ table # after1
    /\ SameContent(table, after1)

(***************************************************************************)
(* Claims about the retry on HTTP 429 of the disk-cached geocoder          *)
(***************************************************************************)
\* C26: one geocode call retries exactly once on HTTP 429: it sends at most
\* two HTTP requests.
C26_AtMostTwoRequests == lastGeocode.requests <= 2

(***************************************************************************)
(* Claims about the cache file                                             *)
(***************************************************************************)
\* C27: with a writable cache file, at any moment fewer than 100 entries
\* added since the last flush exist only in memory, and on completion of a
\* batch run every entry is on disk.
C27_FlushedEveryHundred ==
    disk_writable =>
        /\ cache_len - disk_len < FlushEvery
        /\ (flushpc = "done") => (disk_len = cache_len)

(***************************************************************************)
(* Claims about the paged fetch                                            *)
(***************************************************************************)
\* C28: fetch_all_pages returns the rows accumulated so far as soon as a
\* page is short, the running total reaches totalCount or the maximum page
\* count is reached; the maximum page count is optional, and without it the
\* fetch still runs and stops on the first two conditions.
C28_RunsWithOrWithoutMaxPages ==
    /\ fetchpc # "raised"
    /\ (fetchpc = "returned" /\ max_pages = NoMaxPages
          /\ fetchFailures = 0) =>
           all_data = total_rows

(***************************************************************************)
(* Claims about the ultra-fast backfill                                    *)
(***************************************************************************)
\* the rows that had a missing neighborhood and coordinates when the run
\* started (coordinates never change, every row starts without neighborhood)
EligibleAtStart == {i \in RowIds : cctv_rows[i].coords}

\* C29: when the chunked loop has ended, every camera row that had a missing
\* neighborhood and non-null coordinates at the start of the run was
\* submitted for reverse geocoding at least once.
C29_EveryEligibleRowSubmitted ==
    (fillpc = "done") => (EligibleAtStart \subseteq submitted)

\* C30: at most 3 reverse-geocoding tasks are in flight at any instant, a
\* result is consumed only after its task completed, and one database write
\* is issued per completed task.
C30_OneWritePerCompletedTask ==
    /\ Cardinality(Running) <= max_workers
    /\ writes = consumed

\* C30 (amended): at most 3 reverse-geocoding tasks are in flight at any
\* instant, and one database write is issued per completed task that
\* returned a neighborhood name; a task that returned nothing causes no
\* write.
C30_OneWritePerNamedResult ==
    /\ Cardinality(Running) <= max_workers
    /\ writes = named
    /\ named <= consumed
    /\ consumed <= Cardinality(submitted)

\* three tasks are in flight while a fourth has already been consumed
\* without a name
C30_Witness ==
    /\ Cardinality(Running) = max_workers
    /\ consumed = 1
    /\ named = 0
    /\ writes = 0

====
